---- MODULE Spec2Model ----
(***************************************************************************)
(* The tag store and the install pipeline of avm (any version manager).    *)
(*                                                                         *)
(* One tool directory <tools_base>/<tool> is modelled.  A name is a        *)
(* sequence of string pieces, so that the reserved prefix ".tmp." is a     *)
(* piece of its own: starts_with(name, TMP_PREFIX) and                     *)
(* format!("{}{}", TMP_PREFIX, tag) are computed on the pieces.            *)
(* The cfg(unix) branches of the source are the ones modelled.             *)
(*                                                                         *)
(* The pure parts (archive type detection, the version orders and label    *)
(* parsers of the Go, Node and Liberica adapters, their catalog filters,   *)
(* hash verification) are operators; each is exercised by a specification  *)
(* of its own that draws the inputs into `call` and applies the operator.  *)
(***************************************************************************)
EXTENDS Integers, Sequences, FiniteSets, TLC

VARIABLES fs, cancelled, procs, last, nops, mode, http, call

vars == <<fs, cancelled, procs, last, nops, mode, http, call>>

(***************************************************************************)
(* Bounds                                                                  *)
(***************************************************************************)
\* operations (commands) started in one behaviour
MaxOps == 3
\* body chunks a response delivers before the stream ends
MaxChunks == 1
\* install commands started in one behaviour of the interleaved runtime
MaxConcOps == 2
\* characters of a requested URL
MaxUrlLen == 3
\* characters of the `from` of a mirror entry
MaxFromLen == 2
\* entries of the mirror list of the configuration
MaxRules == 2
\* pieces of the path of an archive
MaxPathLen == 4
\* largest value of a numeric component of a parsed version
MaxComponent == 1
\* largest number of a beta or rc pre-release
MaxPre == 2
\* releases in the catalog an upstream answers with
MaxCatalog == 2
\* chunks of a response body whose progress is followed
MaxBody == 2
\* bytes of one chunk of that body
MaxChunkLen == 2
\* pieces of an arbitrary label handed to parse_go_version
MaxLabelLen == 4

(***************************************************************************)
(* Names                                                                   *)
(***************************************************************************)
TMP_PREFIX == ".tmp."

\* the version tags installs are explored on
Versions == {<<"1.21">>, <<"1.22">>}

DEFAULT_TAG == <<"default">>

starts_with(name, prefix) == Len(name) > 0 /\ name[1] = prefix

\* tool_dir.join(format!("{}{}", TMP_PREFIX, tag))
TmpName(tag) == <<TMP_PREFIX>> \o tag

\* tag names a caller can supply
Tags == Versions \cup {DEFAULT_TAG, TmpName(<<"1.22">>)}

\* tags get_down_info can derive: "{platform_}{flavor_}{version}"
DerivedTags == Tags \ {DEFAULT_TAG}

Names == Tags \cup {TmpName(t) : t \in {u \in Tags : ~starts_with(u, TMP_PREFIX)}}

(***************************************************************************)
(* Directory entries                                                       *)
(***************************************************************************)
NoEntry == [type |-> "none"]

Link(target) == [type |-> "link", target |-> target]

Dir(content) == [type |-> "dir", content |-> content]

\* archives: what extraction puts directly under the extraction directory
Archives ==
    { [id |-> "A", top |-> "single_dir"],
      [id |-> "B", top |-> "multi"],
      [id |-> "C", top |-> "empty"],
      [id |-> "D", top |-> "single_file"] }

\* the scratch directory of a streaming install: the file "download" and
\* the directory "extracted"
Scratch(download, extracted) ==
    [layout |-> "scratch", download |-> download, extracted |-> extracted]

\* a directory no entry was written into
IsEmptyDir(e) == e.type = "dir" /\ e.content.layout = "empty"

EmptyStore == [n \in Names |-> NoEntry]

(***************************************************************************)
(* std::fs and std::path primitives                                        *)
(***************************************************************************)
RECURSIVE ResolveN(_, _, _)
ResolveN(f, n, k) ==
    IF n \notin DOMAIN f THEN NoEntry
    ELSE IF f[n].type = "link"
         THEN IF k = 0 THEN NoEntry ELSE ResolveN(f, f[n].target, k - 1)
         ELSE f[n]

\* std::fs::metadata: follows links; NoEntry stands for the NotFound error
Metadata(f, n) == ResolveN(f, n, Cardinality(Names))

\* std::fs::symlink_metadata: does not follow links
SymlinkMetadata(f, n) == f[n]

\* Path::exists: follows links
PathExists(f, n) == Metadata(f, n).type # "none"

\* std::fs::remove_dir_all: removes a directory tree, or the link itself
RemoveDirAll(f, n) ==
    IF f[n].type = "none"
    THEN [ok |-> FALSE, kind |-> "NotFound", fs |-> f]
    ELSE [ok |-> TRUE, kind |-> "", fs |-> [f EXCEPT ![n] = NoEntry]]

\* std::fs::remove_dir: an empty directory only; a link is ENOTDIR
RemoveDir(f, n) ==
    IF IsEmptyDir(f[n])
    THEN [ok |-> TRUE, fs |-> [f EXCEPT ![n] = NoEntry]]
    ELSE [ok |-> FALSE, fs |-> f]

\* std::fs::create_dir_all: fine on a directory, fails on a dangling link
CreateDirAll(f, n, content) ==
    IF f[n].type = "none"
    THEN [ok |-> TRUE, fs |-> [f EXCEPT ![n] = Dir(content)]]
    ELSE IF Metadata(f, n).type = "dir"
         THEN [ok |-> TRUE, fs |-> f]
         ELSE [ok |-> FALSE, fs |-> f]

\* std::fs::rename of a directory holding `content` onto `to`: the target
\* must be absent or an empty directory
Rename(f, to, content) ==
    IF f[to].type = "none" \/ IsEmptyDir(f[to])
    THEN [ok |-> TRUE, fs |-> [f EXCEPT ![to] = Dir(content)]]
    ELSE [ok |-> FALSE, fs |-> f]

(***************************************************************************)
(* io::blocking: links                                                     *)
(***************************************************************************)
\* create_link: symlink(src_path, link_path); EEXIST on any existing entry
create_link(f, src, link) ==
    IF f[link].type = "none"
    THEN [ok |-> TRUE, fs |-> [f EXCEPT ![link] = Link(src)]]
    ELSE [ok |-> FALSE, fs |-> f]

\* get_link_target: read_link; EINVAL on a directory is NotLink
get_link_target(f, n) ==
    IF f[n].type = "none" THEN [kind |-> "NotFound"]
    ELSE IF f[n].type = "link" THEN [kind |-> "Link", target |-> f[n].target]
    ELSE [kind |-> "NotLink"]

\* check_is_link: is_symlink() of the metadata that std::fs::metadata
\* returns, which is the metadata of the entry the link resolves to
check_is_link(f, n) ==
    LET metadata == Metadata(f, n) IN
    IF metadata.type = "none" THEN "NotFound"
    ELSE IF metadata.type = "link" THEN "Link"
    ELSE "NotLink"

\* set_alias_tag with a NotLink arm that replaces the entry
set_alias_tag_clobber(f, src, alias) ==
    IF ~PathExists(f, src)
    THEN [ok |-> FALSE, msg |-> "src tag not found", fs |-> f]
    ELSE [ok |-> TRUE, msg |-> "", fs |-> [f EXCEPT ![alias] = Link(src)]]

\* set_alias_tag(src_tag, src_path, alias_tag, alias_path)
set_alias_tag(f, src, alias) ==
    IF ~PathExists(f, src)
    THEN [ok |-> FALSE, msg |-> "src tag not found", fs |-> f]
    ELSE LET c == check_is_link(f, alias)
             removed == IF c = "Link" THEN RemoveDir(f, alias)
                        ELSE [ok |-> TRUE, fs |-> f]
             linked == create_link(removed.fs, src, alias)
         IN  IF c = "NotLink"
             THEN [ok |-> FALSE, msg |-> "exists and is not an alias", fs |-> f]
             ELSE IF ~removed.ok
             THEN [ok |-> FALSE, msg |-> "io", fs |-> f]
             ELSE IF ~linked.ok
             THEN [ok |-> FALSE, msg |-> "io", fs |-> removed.fs]
             ELSE [ok |-> TRUE, msg |-> "", fs |-> linked.fs]

\* list_tags(path, ignore_prefix): (name, alias target) of every entry whose
\* name does not start with ignore_prefix; "" stands for None
list_tags(f, ignore_prefix) ==
    { <<n, IF get_link_target(f, n).kind = "Link"
           THEN get_link_target(f, n).target ELSE <<>> >> :
        n \in {m \in Names : f[m].type # "none" /\ ~starts_with(m, ignore_prefix)} }

(***************************************************************************)
(* tool::general_tool: the blocking closures of the tag-store commands     *)
(***************************************************************************)
\* the aliases whose reported target is tag_to_delete
AliasesOf(f, tag_to_delete) ==
    {e[1] : e \in {x \in list_tags(f, TMP_PREFIX) : x[2] = tag_to_delete}}

\* a delete_tag that removes what an alias points at along with the alias
delete_tag_follow(f, tag_to_delete, allow_dangling, named) ==
    IF ~allow_dangling /\ AliasesOf(f, tag_to_delete) # {}
    THEN [ok |-> FALSE, msg |-> "is an alias target", named |-> named, fs |-> f]
    ELSE IF f[tag_to_delete].type = "none"
    THEN [ok |-> FALSE, msg |-> "not found", named |-> <<>>, fs |-> f]
    ELSE [ok |-> TRUE, msg |-> "", named |-> <<>>,
          fs |-> [n \in Names |->
                    IF n = tag_to_delete
                       \/ (f[tag_to_delete].type = "link"
                            /\ n = f[tag_to_delete].target)
                    THEN NoEntry ELSE f[n]]]

\* delete_tag; `named` is the alias the scan met first (read_dir order)
delete_tag(f, tag_to_delete, allow_dangling, named) ==
    IF ~allow_dangling /\ AliasesOf(f, tag_to_delete) # {}
    THEN [ok |-> FALSE, msg |-> "is an alias target", named |-> named, fs |-> f]
    ELSE LET r == RemoveDirAll(f, tag_to_delete) IN
         IF r.ok
         THEN [ok |-> TRUE, msg |-> "", named |-> <<>>, fs |-> r.fs]
         ELSE [ok |-> FALSE, msg |-> "not found", named |-> <<>>, fs |-> f]

\* create_alias_tag
create_alias_tag(f, src_tag, alias_tag) == set_alias_tag(f, src_tag, alias_tag)

\* copy_tag.  fs_extra is not part of the repository: for a destination that
\* does not exist, its dir::copy with the default CopyOptions either copies
\* the tree the source resolves to onto the destination path (copied), or
\* returns an error with nothing created (it makes <dest>/<src name> with a
\* create_dir whose parent is missing); both outcomes are kept
copy_tag(f, src_tag, dest_tag, copied) ==
    IF dest_tag = DEFAULT_TAG
    THEN [ok |-> FALSE, msg |-> "default tag is only allowed as an alias tag", fs |-> f]
    ELSE IF ~PathExists(f, src_tag)
    THEN [ok |-> FALSE, msg |-> "src tag not found", fs |-> f]
    ELSE IF PathExists(f, dest_tag)
    THEN [ok |-> FALSE, msg |-> "dest tag already exists", fs |-> f]
    ELSE IF f[dest_tag].type # "none" \/ ~copied
    THEN [ok |-> FALSE, msg |-> "io", fs |-> f]
    ELSE [ok |-> TRUE, msg |-> "",
          fs |-> [f EXCEPT ![dest_tag] = Dir(Metadata(f, src_tag).content)]]

\* one iteration of the loop of clean over a directory entry
clean_entry(f, n) ==
    IF starts_with(n, TMP_PREFIX)
    THEN RemoveDirAll(f, n).fs
    ELSE IF SymlinkMetadata(f, n).type = "link" /\ Metadata(f, n).type = "none"
         THEN [f EXCEPT ![n] = NoEntry]
         ELSE f

\* clean: the loop over the entries in the order read_dir yields them
RECURSIVE clean(_, _)
clean(f, entries) ==
    IF entries = <<>> THEN f
    ELSE clean(clean_entry(f, Head(entries)), Tail(entries))

\* the orders read_dir can yield the entries of the tool directory in
ReadDirOrders(f) ==
    LET present == {n \in Names : f[n].type # "none"}
        k == Cardinality(present)
    IN  {s \in [1..k -> present] : \A i, j \in 1..k : i # j => s[i] # s[j]}

(***************************************************************************)
(* HttpClient: the mirror rewrite of a requested URL.  A string is the     *)
(* sequence of its characters.                                             *)
(***************************************************************************)
Chars == {"a", "b"}

\* the strings of at most n characters
Strs(n) == UNION {[1..k -> Chars] : k \in 0..n}

Urls == Strs(MaxUrlLen)

\* the `to` of a mirror entry
Tos == {<<"a">>, <<"b", "a">>, <<"b", "b", "b">>}

\* UrlMirror.mirror: the ordered list of {from, to} entries
Mirrors ==
    UNION {[1..k -> [from : Strs(MaxFromLen), to : Tos]] : k \in 0..MaxRules}

\* a strip_prefix that hands back the whole string as the rest
strip_prefix_whole(s, prefix) ==
    IF Len(prefix) <= Len(s) /\ SubSeq(s, 1, Len(prefix)) = prefix
    THEN [some |-> TRUE, rest |-> s]
    ELSE [some |-> FALSE, rest |-> <<>>]

\* str::strip_prefix
strip_prefix(s, prefix) ==
    IF Len(prefix) <= Len(s) /\ SubSeq(s, 1, Len(prefix)) = prefix
    THEN [some |-> TRUE, rest |-> SubSeq(s, Len(prefix) + 1, Len(s))]
    ELSE [some |-> FALSE, rest |-> <<>>]

\* the loop of HttpClient::get from entry i on: the URL the request is
\* built for and the entry the loop returned at (0: the loop ran out)
RECURSIVE get_from(_, _, _)
get_from(mirror, i, url) ==
    IF i > Len(mirror) THEN [url |-> url, entry |-> 0]
    ELSE LET rest == strip_prefix(url, mirror[i].from) IN
         IF rest.some
         THEN [url |-> mirror[i].to \o rest.rest, entry |-> i]
         ELSE get_from(mirror, i + 1, url)

\* a get that runs the rewritten URL through the mirror list again
get_again(mirror, url) ==
    [url |-> get_from(mirror, 1, get_from(mirror, 1, url).url).url,
     entry |-> get_from(mirror, 1, url).entry]

\* HttpClient::get
get(mirror, url) == get_from(mirror, 1, url)

NoRequest == [mirror |-> <<>>, url |-> <<>>, sent |-> FALSE, out |-> <<>>, entry |-> 0]

(***************************************************************************)
(* io: ArchiveType::from_path.  A path is the sequence of its pieces, the  *)
(* dot being a piece of its own, so that ends_with is computed piece by    *)
(* piece.                                                                  *)
(***************************************************************************)
PathPieces == {".", "zip", "tar", "gz", "xz", "a"}

Paths == UNION {[1..k -> PathPieces] : k \in 0..MaxPathLen}

ends_with_last(s, suffix) ==
    Len(s) >= 1 /\ s[Len(s)] = suffix[Len(suffix)]

\* <[u8]>::ends_with
ends_with(s, suffix) ==
    /\ Len(suffix) <= Len(s)
    /\ \A i \in 1..Len(suffix) : s[Len(s) - Len(suffix) + i] = suffix[i]

\* ArchiveType::from_path
from_path(path) ==
    IF ends_with(path, <<".", "zip">>)
    THEN [ok |-> TRUE, type |-> "Zip", msg |-> ""]
    ELSE IF ends_with(path, <<".", "tar", ".", "gz">>)
    THEN [ok |-> TRUE, type |-> "TarGz", msg |-> ""]
    ELSE IF ends_with(path, <<".", "tar", ".", "xz">>)
    THEN [ok |-> TRUE, type |-> "TarXz", msg |-> ""]
    ELSE [ok |-> FALSE, type |-> "", msg |-> "unknown archive type"]

(***************************************************************************)
(* tool::general_tool::{go, liberica, node}: the parsed versions and the   *)
(* orders #[derive(PartialOrd, Ord)] gives them.  A derived order compares *)
(* the fields in their declaration order; on an enum it compares the       *)
(* variants in their declaration order and then the payloads.              *)
(***************************************************************************)
Tools == {"go", "liberica", "node"}

Components == 0..MaxComponent

\* PreRelease
PreReleases ==
    [kind : {"Beta", "Rc"}, n : 1..MaxPre] \cup {[kind |-> "None", n |-> 0]}

GoVersions ==
    [major : Components, minor : Components, patch : Components,
     pre_release : PreReleases]

JdkVersions ==
    [major : Components, minor : Components, security : Components,
     patch : Components, build : Components]

NodeVersions == [major : Components, minor : Components, patch : Components]

ParsedVersions(tool) ==
    CASE tool = "go" -> GoVersions
      [] tool = "liberica" -> JdkVersions
      [] tool = "node" -> NodeVersions

\* <u32 as Ord>::cmp
cmp_u32(x, y) == IF x < y THEN "Less" ELSE IF x > y THEN "Greater" ELSE "Equal"

\* the step of a derived cmp: the first field that differs decides
then(c, rest) == IF c # "Equal" THEN c ELSE rest

discriminant_rc_first(p) ==
    CASE p.kind = "Rc" -> 0 [] p.kind = "Beta" -> 1 [] p.kind = "None" -> 2

\* the position of a variant of PreRelease in the enum
discriminant(p) ==
    CASE p.kind = "Beta" -> 0 [] p.kind = "Rc" -> 1 [] p.kind = "None" -> 2

\* <PreRelease as Ord>::cmp
cmp_PreRelease(p, q) ==
    then(cmp_u32(discriminant(p), discriminant(q)), cmp_u32(p.n, q.n))

\* <GoVersion as Ord>::cmp
cmp_GoVersion(a, b) ==
    then(cmp_u32(a.major, b.major),
    then(cmp_u32(a.minor, b.minor),
    then(cmp_u32(a.patch, b.patch),
         cmp_PreRelease(a.pre_release, b.pre_release))))

\* <JdkVersion as Ord>::cmp
cmp_JdkVersion(a, b) ==
    then(cmp_u32(a.major, b.major),
    then(cmp_u32(a.minor, b.minor),
    then(cmp_u32(a.security, b.security),
    then(cmp_u32(a.patch, b.patch),
         cmp_u32(a.build, b.build)))))

\* <NodeVersion as Ord>::cmp
cmp_NodeVersion(a, b) ==
    then(cmp_u32(a.major, b.major),
    then(cmp_u32(a.minor, b.minor),
         cmp_u32(a.patch, b.patch)))

\* a.cmp(&b) on the parsed version type of a tool
cmp(tool, a, b) ==
    CASE tool = "go" -> cmp_GoVersion(a, b)
      [] tool = "liberica" -> cmp_JdkVersion(a, b)
      [] tool = "node" -> cmp_NodeVersion(a, b)

(***************************************************************************)
(* The version labels of the upstream catalogs and their parsers.  A label *)
(* is the sequence of its pieces: a decimal numeral, a separator or a      *)
(* keyword is one piece each ("go1.24rc3" is <<"go","1",".","24","rc","3">>)*)
(***************************************************************************)
NumeralValue ==
    ("0" :> 0) @@ ("1" :> 1) @@ ("2" :> 2) @@ ("3" :> 3) @@ ("5" :> 5) @@
    ("7" :> 7) @@ ("8" :> 8) @@ ("11" :> 11) @@ ("12" :> 12) @@ ("17" :> 17) @@
    ("20" :> 20) @@ ("21" :> 21) @@ ("22" :> 22) @@ ("23" :> 23) @@
    ("24" :> 24) @@ ("35" :> 35) @@ ("432" :> 432)

\* a parse that reads whatever is no number as 0
u32_parse_or_0(part) ==
    IF Len(part) = 1 /\ part[1] \in DOMAIN NumeralValue
    THEN [ok |-> TRUE, v |-> NumeralValue[part[1]]]
    ELSE [ok |-> TRUE, v |-> 0]

\* str::parse::<u32> on a part of a label: digits, after an optional '+'
u32_parse(part) ==
    IF Len(part) = 1 /\ part[1] \in DOMAIN NumeralValue
    THEN [ok |-> TRUE, v |-> NumeralValue[part[1]]]
    ELSE IF Len(part) = 2 /\ part[1] = "+" /\ part[2] \in DOMAIN NumeralValue
    THEN [ok |-> TRUE, v |-> NumeralValue[part[2]]]
    ELSE [ok |-> FALSE, v |-> 0]

\* u32::to_smolstr
to_smolstr(n) == CHOOSE d \in DOMAIN NumeralValue : NumeralValue[d] = n

\* str::find: the position of the first occurrence, 0 for None
find(str, piece) ==
    IF \E i \in 1..Len(str) : str[i] = piece
    THEN CHOOSE i \in 1..Len(str) :
            str[i] = piece /\ \A j \in 1..(i - 1) : str[j] # piece
    ELSE 0

\* str::split(sep).collect()
RECURSIVE split(_, _)
split(str, sep) ==
    LET i == find(str, sep) IN
    IF i = 0 THEN <<str>>
    ELSE <<SubSeq(str, 1, i - 1)>> \o split(SubSeq(str, i + 1, Len(str)), sep)

ParseErr == [ok |-> FALSE, raw |-> <<>>, version |-> <<>>]

\* parse_go_version
parse_go_version(s) ==
    IF ~(Len(s) >= 1 /\ s[1] = "go") THEN ParseErr
    ELSE
    LET raw_version == Tail(s) IN
    IF raw_version = <<>> THEN ParseErr
    ELSE
    LET beta == find(raw_version, "beta")
        rc == find(raw_version, "rc")
        index == IF beta # 0 THEN beta ELSE rc
        num == u32_parse(SubSeq(raw_version, index + 1, Len(raw_version)))
        main_part == IF index = 0 THEN raw_version
                     ELSE SubSeq(raw_version, 1, index - 1)
        pre_release == IF beta # 0 THEN [kind |-> "Beta", n |-> num.v]
                       ELSE IF rc # 0 THEN [kind |-> "Rc", n |-> num.v]
                       ELSE [kind |-> "None", n |-> 0]
        parts == split(main_part, ".")
        major == u32_parse(parts[1])
        minor == IF Len(parts) >= 2 THEN u32_parse(parts[2]) ELSE [ok |-> TRUE, v |-> 0]
        patch == IF Len(parts) >= 3 THEN u32_parse(parts[3]) ELSE [ok |-> TRUE, v |-> 0]
    IN  IF index # 0 /\ ~num.ok THEN ParseErr
        ELSE IF ~major.ok \/ ~minor.ok \/ ~patch.ok THEN ParseErr
        ELSE IF Len(parts) > 3 THEN ParseErr
        ELSE [ok |-> TRUE, raw |-> raw_version,
              version |-> [major |-> major.v, minor |-> minor.v,
                           patch |-> patch.v, pre_release |-> pre_release]]

\* parse_node_version
parse_node_version(s) ==
    LET raw_version == IF Len(s) >= 1 /\ s[1] = "v" THEN Tail(s) ELSE s IN
    IF raw_version = <<>> THEN ParseErr
    ELSE
    LET parts == split(raw_version, ".") IN
    IF Len(parts) # 3 THEN ParseErr
    ELSE
    LET major == u32_parse(parts[1])
        minor == u32_parse(parts[2])
        patch == u32_parse(parts[3])
    IN  IF ~major.ok \/ ~minor.ok \/ ~patch.ok THEN ParseErr
        ELSE [ok |-> TRUE, raw |-> raw_version,
              version |-> [major |-> major.v, minor |-> minor.v, patch |-> patch.v]]

\* str::parse().unwrap_or(0)
parse_or_0(part) == u32_parse(part).v

\* JdkVersion::parse
JdkVersion_parse(version) ==
    IF Len(version) >= 1 /\ version[1] \in {"8u", "8U"}
    THEN LET parts == split(Tail(version), "+") IN
         [major |-> 8, minor |-> 0, security |-> parse_or_0(parts[1]), patch |-> 0,
          build |-> IF Len(parts) >= 2 THEN parse_or_0(parts[2]) ELSE 0]
    ELSE LET parts == split(version, "+")
             version_numbers == split(parts[1], ".")
             number(k) == IF Len(version_numbers) >= k
                          THEN parse_or_0(version_numbers[k]) ELSE 0
         IN  [major |-> number(1), minor |-> number(2), security |-> number(3),
              patch |-> number(4),
              build |-> IF Len(parts) >= 2 THEN parse_or_0(parts[2]) ELSE 0]

(***************************************************************************)
(* The upstream catalogs, the version filters and the adapters'            *)
(* fetch_versions and get_down_info.  An Option is a sequence: <<>> is     *)
(* None and <<x>> is Some(x).  The platform asked for is x64-linux.        *)
(***************************************************************************)
is_some(o) == o # <<>>

\* the catalog of the Go major-filter scenario
GoExampleLabels ==
    << <<"go", "1", ".", "24", ".", "2">>, <<"go", "1", ".", "24", "rc", "3">>,
       <<"go", "1", ".", "23", ".", "8">>, <<"go", "1", ".", "22", ".", "12">>,
       <<"go", "1", ".", "24", ".", "1">> >>

GoLabels ==
    {GoExampleLabels[i] : i \in 1..Len(GoExampleLabels)}
        \cup {<<"go", "2">>, <<"go", "2", ".", "0">>, <<"go", "1", ".", "24", "rc">>}

NodeLabels ==
    {<<"v", "20", ".", "11", ".", "1">>, <<"20", ".", "11", ".", "1">>,
     <<"v", "22", ".", "1", ".", "0">>, <<"v", "20", ".", "11">>}

JdkLabels ==
    {<<"21", ".", "0", ".", "5", "+", "11">>, <<"21", "+", "35">>,
     <<"21", ".", "0", ".", "0", "+", "35">>,
     <<"17", ".", "0", ".", "12", "+", "7">>, <<"8u", "432", "+", "7">>}

\* ReleaseFileDto of the Go catalog
GoArchive == [os |-> "linux", arch |-> "amd64", kind |-> "archive"]

GoInstaller == [os |-> "linux", arch |-> "amd64", kind |-> "installer"]

\* ReleaseDto of the Go catalog
GoReleases == [version : GoLabels, files : {<<GoArchive>>, <<GoInstaller>>}]

\* LtsDto
LtsDtos == {[variant |-> "String", bool |-> FALSE], [variant |-> "Bool", bool |-> FALSE]}

\* ReleaseDto of the Node catalog
NodeReleases ==
    [version : NodeLabels, lts : LtsDtos, files : {<<"linux-x64">>, <<"osx-arm64-tar">>}]

\* ReleaseItemDto
JdkReleases == [version : JdkLabels, LTS : BOOLEAN]

\* NikReleaseItemDto
NikReleases ==
    [components : {<<[component |-> c, version |-> l]>> :
                      c \in {"liberica", "nik"}, l \in JdkLabels},
     LTS : BOOLEAN]

Flavors(tool) == IF tool = "liberica" THEN {"jdk", "nik_standard"} ELSE {"none"}

Releases(tool, flavor) ==
    CASE tool = "go" -> GoReleases
      [] tool = "node" -> NodeReleases
      [] tool = "liberica" /\ flavor = "jdk" -> JdkReleases
      [] tool = "liberica" /\ flavor # "jdk" -> NikReleases

Catalogs(tool, flavor) ==
    UNION {[1..k -> Releases(tool, flavor)] : k \in 0..MaxCatalog}

\* the catalog of the Go major-filter scenario, every release with its archive
GoExampleCatalog ==
    [i \in 1..Len(GoExampleLabels) |->
        [version |-> GoExampleLabels[i], files |-> <<GoArchive>>]]

\* VersionFilter, as get_install_version_filter builds it
VersionFilters(tool) ==
    [lts_only : BOOLEAN,
     major_version :
        CASE tool = "go" -> {<<>>, <<"1">>, <<"2">>}
          [] tool = "node" -> {<<>>, <<"20">>, <<"22">>}
          [] tool = "liberica" -> {<<>>, <<"21">>, <<"17">>},
     exact_version :
        CASE tool = "go" ->
               {<<>>, << <<"go", "1", ".", "24", ".", "2">> >>,
                << <<"1", ".", "24", ".", "2">> >>}
          [] tool = "node" ->
               {<<>>, << <<"v", "20", ".", "11", ".", "1">> >>,
                << <<"20", ".", "11", ".", "1">> >>}
          [] tool = "liberica" ->
               {<<>>, << <<"21", ".", "0", ".", "5", "+", "11">> >>,
                << <<"8u", "432", "+", "7">> >>}]

\* TryFrom<VersionFilter> for GoVersionFilter and for NodeVersionFilter
try_from(value) ==
    LET major == IF is_some(value.major_version)
                 THEN u32_parse(value.major_version) ELSE [ok |-> TRUE, v |-> 0] IN
    IF ~major.ok
    THEN [ok |-> FALSE, msg |-> "Invalid major version"]
    ELSE [ok |-> TRUE, msg |-> "", lts_only |-> value.lts_only,
          major_version |-> IF is_some(value.major_version) THEN <<major.v>> ELSE <<>>,
          exact_version |-> value.exact_version]

\* GoVersion::is_lts
is_lts(version) == version.pre_release.kind = "None"

GoVersionFilter_matches_lts_alone(f, raw_version, version) ==
    ~(f.lts_only /\ ~is_lts(version))

\* GoVersionFilter::matches
GoVersionFilter_matches(f, raw_version, version) ==
    IF f.lts_only /\ ~is_lts(version) THEN FALSE
    ELSE IF is_some(f.major_version) /\ version.major # f.major_version[1] THEN FALSE
    ELSE IF is_some(f.exact_version) /\ f.exact_version[1] # raw_version THEN FALSE
    ELSE TRUE

\* LtsDto::is
LtsDto_is(lts) == IF lts.variant = "String" THEN TRUE ELSE lts.bool

\* NodeVersionFilter::verify
NodeVersionFilter_verify(f, raw_version, version, lts) ==
    IF f.lts_only /\ ~lts THEN FALSE
    ELSE IF is_some(f.major_version) /\ version.major # f.major_version[1] THEN FALSE
    ELSE IF is_some(f.exact_version) /\ raw_version # f.exact_version[1] THEN FALSE
    ELSE TRUE

\* ReleaseFileDto::matches, with the (cpu, os) of x64-linux
ReleaseFileDto_matches(file) ==
    file.os = "linux" /\ file.arch = "amd64" /\ file.kind = "archive"

\* r.files.iter().any(..)
any_file(files, Test(_)) == \E i \in 1..Len(files) : Test(files[i])

\* the filter_map closure of the Go adapter: Some((version, raw_version))
go_kept(r, f) ==
    /\ any_file(r.files, ReleaseFileDto_matches)
    /\ parse_go_version(r.version).ok
    /\ GoVersionFilter_matches(f, parse_go_version(r.version).raw,
                               parse_go_version(r.version).version)

go_release(r) ==
    [version |-> parse_go_version(r.version).version,
     version_raw |-> parse_go_version(r.version).raw,
     lts |-> is_lts(parse_go_version(r.version).version)]

\* the filter_map closure of the Node adapter, with the file key of x64-linux
node_kept(r, f) ==
    /\ parse_node_version(r.version).ok
    /\ NodeVersionFilter_verify(f, parse_node_version(r.version).raw,
                                parse_node_version(r.version).version,
                                LtsDto_is(r.lts))
    /\ any_file(r.files, LAMBDA file : file = "linux-x64")

node_release(r) ==
    [version |-> parse_node_version(r.version).version,
     version_raw |-> parse_node_version(r.version).raw,
     lts |-> LtsDto_is(r.lts)]

\* iter.filter(..).map(..).collect()
filter_map(seq, Kept(_), Item(_)) ==
    LET kept == SelectSeq(seq, Kept) IN [i \in 1..Len(kept) |-> Item(kept[i])]

\* the answer of the Liberica endpoints to the query parameters release-type,
\* version-feature and version (platform and bundle type are those asked for)
upstream(catalog, query) ==
    SelectSeq(catalog, LAMBDA r :
        /\ (query.release_type = "lts") => r.LTS
        /\ is_some(query.version_feature)
              => to_smolstr(JdkVersion_parse(r.version).major) = query.version_feature[1]
        /\ is_some(query.version) => r.version = query.version[1])

release_type(filter) == IF filter.lts_only THEN "lts" ELSE "all"

\* From<ReleaseItemDto> for ReleaseItem
ReleaseItem_from(value) ==
    [version |-> JdkVersion_parse(value.version), version_raw |-> value.version,
     lts |-> value.LTS]

\* Tool::fetch_liberica_releases
fetch_liberica_releases(catalog, version_filter) ==
    LET response ==
          upstream(catalog, [version_feature |-> version_filter.major_version,
                             version |-> version_filter.exact_version,
                             release_type |-> release_type(version_filter)])
    IN  [ok |-> TRUE, msg |-> "",
         releases |-> [i \in 1..Len(response) |-> ReleaseItem_from(response[i])]]

\* value.components.iter().find(|c| c.component == "liberica")
java_component(value) ==
    LET i == CHOOSE i \in 0..Len(value.components) :
               /\ i # 0 => value.components[i].component = "liberica"
               /\ \A j \in 1..Len(value.components) :
                    (value.components[j].component = "liberica") => (i # 0 /\ i <= j)
    IN IF i = 0 THEN <<>> ELSE <<value.components[i]>>

\* TryFrom<NikReleaseItemDto> for ReleaseItem
ReleaseItem_try_from(value) ==
    [version |-> JdkVersion_parse(java_component(value)[1].version),
     version_raw |-> java_component(value)[1].version,
     lts |-> value.LTS]

\* the closure of the filter of Tool::fetch_nik_releases
nik_kept(r, major_version, exact_version) ==
    IF is_some(major_version) /\ r.version.major # major_version[1] THEN FALSE
    ELSE IF is_some(exact_version) /\ r.version_raw # exact_version[1] THEN FALSE
    ELSE TRUE

\* Tool::fetch_nik_releases
fetch_nik_releases(catalog, version_filter) ==
    LET response ==
          SelectSeq(catalog, LAMBDA r :
              (release_type(version_filter) = "lts") => r.LTS)
        releases ==
          filter_map(response, LAMBDA r : is_some(java_component(r)),
                     ReleaseItem_try_from)
        major == try_from(version_filter)
    IN  IF ~major.ok THEN [ok |-> FALSE, msg |-> major.msg, releases |-> <<>>]
        ELSE IF is_some(version_filter.exact_version) \/ is_some(major.major_version)
        THEN [ok |-> TRUE, msg |-> "",
              releases |-> SelectSeq(releases, LAMBDA r :
                              nik_kept(r, major.major_version,
                                       version_filter.exact_version))]
        ELSE [ok |-> TRUE, msg |-> "", releases |-> releases]

\* the releases an adapter keeps from the catalog, before sorting
fetch_releases(tool, flavor, catalog, version_filter) ==
    CASE tool = "go" ->
           LET f == try_from(version_filter) IN
           IF ~f.ok THEN [ok |-> FALSE, msg |-> f.msg, releases |-> <<>>]
           ELSE [ok |-> TRUE, msg |-> "",
                 releases |-> filter_map(catalog, LAMBDA r : go_kept(r, f), go_release)]
      [] tool = "node" ->
           LET f == try_from(version_filter) IN
           IF ~f.ok THEN [ok |-> FALSE, msg |-> f.msg, releases |-> <<>>]
           ELSE [ok |-> TRUE, msg |-> "",
                 releases |-> filter_map(catalog, LAMBDA r : node_kept(r, f),
                                         node_release)]
      [] tool = "liberica" /\ flavor = "jdk" ->
           fetch_liberica_releases(catalog, version_filter)
      [] tool = "liberica" /\ flavor # "jdk" ->
           fetch_nik_releases(catalog, version_filter)

\* compare(a, b) of a sort: a.cmp(b), or b.cmp(a) for the descending sort
compare(tool, a, b, descending) ==
    IF descending THEN cmp(tool, b.version, a.version)
    ELSE cmp(tool, a.version, b.version)

\* slice::sort_by: a stable sort
RECURSIVE sort_by(_, _, _)
sort_by(releases, tool, descending) ==
    IF releases = <<>> THEN <<>>
    ELSE LET n == Len(releases)
             x == releases[n]
             sorted == sort_by(SubSeq(releases, 1, n - 1), tool, descending)
             k == Cardinality({i \in 1..Len(sorted) :
                                  compare(tool, sorted[i], x, descending) # "Greater"})
         IN  SubSeq(sorted, 1, k) \o <<x>> \o SubSeq(sorted, k + 1, Len(sorted))

sort_by_unsorted(releases, tool, descending) == releases

\* releases.sort_by(|a, b| a.0.cmp(&b.0)) of fetch_versions
sort_releases(releases, tool, descending) == sort_by(releases, tool, descending)

\* the loop of fetch_versions: a release is pushed when version_set.insert
\* returns true
RECURSIVE push_versions(_, _, _)
push_versions(releases, version_set, versions) ==
    IF releases = <<>> THEN versions
    ELSE LET release == Head(releases) IN
         IF release.version_raw \in version_set
         THEN push_versions(Tail(releases), version_set, versions)
         ELSE push_versions(Tail(releases), version_set \cup {release.version_raw},
                            Append(versions,
                                   [version |-> release.version_raw,
                                    major_version |-> to_smolstr(release.version.major),
                                    is_lts |-> release.lts]))

\* Tool::fetch_versions of the three adapters
fetch_versions(tool, flavor, catalog, version_filter) ==
    LET fetched == fetch_releases(tool, flavor, catalog, version_filter) IN
    IF ~fetched.ok THEN [ok |-> FALSE, msg |-> fetched.msg, versions |-> <<>>]
    ELSE [ok |-> TRUE, msg |-> "",
          versions |-> push_versions(sort_releases(fetched.releases, tool, FALSE), {}, <<>>)]

max_by_first_seen(releases, tool) ==
    IF releases = <<>> THEN <<>> ELSE <<releases[1]>>

\* Iterator::max_by: the last of the greatest elements
RECURSIVE max_by(_, _)
max_by(releases, tool) ==
    IF releases = <<>> THEN <<>>
    ELSE IF Len(releases) = 1 THEN <<releases[1]>>
    ELSE LET n == Len(releases)
             x == max_by(SubSeq(releases, 1, n - 1), tool)[1]
             y == releases[n]
         IN  IF cmp(tool, x.version, y.version) = "Greater" THEN <<x>> ELSE <<y>>

selected_first(tool, releases) ==
    IF releases = <<>> THEN <<>> ELSE <<releases[1]>>

\* the release get_down_info selects: max_by (Go, Node), or the first after
\* the descending sort (Liberica)
selected(tool, releases) ==
    IF tool = "liberica"
    THEN (IF releases = <<>> THEN <<>> ELSE <<sort_by(releases, tool, TRUE)[1]>>)
    ELSE max_by(releases, tool)

\* Tool::get_down_info of the three adapters
get_down_info(tool, flavor, catalog, version_filter) ==
    LET fetched == fetch_releases(tool, flavor, catalog, version_filter) IN
    IF ~fetched.ok THEN [ok |-> FALSE, msg |-> fetched.msg, version |-> <<>>]
    ELSE LET release == selected(tool, fetched.releases) IN
         IF is_some(release)
         THEN [ok |-> TRUE, msg |-> "", version |-> release[1].version_raw]
         ELSE [ok |-> FALSE, msg |-> "No download URL found.", version |-> <<>>]

(***************************************************************************)
(* bin/avm: main.  `result` is what the command future ended with; the     *)
(* None of a cancelled future is unwrapped to Ok(()).  An Err is logged    *)
(* and main returns (), which ends the process with exit status 0.         *)
(***************************************************************************)
main(result) ==
    LET r == IF result = "cancelled" THEN "ok" ELSE result IN
    [logged |-> (r = "err"), status |-> 0]

(***************************************************************************)
(* io::blocking::verify_hash on the digests.  A file is named by its       *)
(* content; a digest is the pair of the algorithm and the content it was   *)
(* computed on; a declared digest is a hex string, which hex::decode       *)
(* accepts in either case and refuses when it is not hexadecimal.          *)
(***************************************************************************)
Contents == {"A", "B"}

\* the file at the path: its content, or "missing"
Files == Contents \cup {"missing"}

Digests == [alg : {"sha1", "sha256"}, of : Contents]

HexStrings == [bytes : Digests, upper : BOOLEAN] \cup {[invalid |-> TRUE]}

\* FileHash
FileHashes ==
    [sha1 : {<<>>} \cup {<<h>> : h \in HexStrings},
     sha256 : {<<>>} \cup {<<h>> : h \in HexStrings}]

\* hex::decode
hex_decode(h) ==
    IF "invalid" \in DOMAIN h THEN [ok |-> FALSE, bytes |-> <<>>]
    ELSE [ok |-> TRUE, bytes |-> <<h.bytes>>]

\* hasher.finalize() after std::io::copy of the file into the hasher
finalize(alg, file) == <<[alg |-> alg, of |-> file]>>

\* one of the two blocks of verify_hash
verify_digest(alg, declared, file) ==
    IF ~is_some(declared) THEN "ok"
    ELSE IF file = "missing" THEN "io"
    ELSE IF ~hex_decode(declared[1]).ok THEN "hex"
    ELSE IF finalize(alg, file) # hex_decode(declared[1]).bytes
    THEN alg \o " verification failed"
    ELSE "ok"

blocking_verify_hash_sha1_alone(hash, file) ==
    verify_digest("sha1", hash.sha1, file)

\* blocking::verify_hash(hash, path): "ok", or the error it returns
blocking_verify_hash(hash, file) ==
    IF verify_digest("sha1", hash.sha1, file) # "ok"
    THEN verify_digest("sha1", hash.sha1, file)
    ELSE verify_digest("sha256", hash.sha256, file)

(***************************************************************************)
(* State                                                                   *)
(***************************************************************************)
Procs == {1, 2}

\* the drivers that may run: one command at a time, or two install
\* pipelines interleaving in one runtime
Active == IF mode = "seq" THEN {1} ELSE Procs

NoArchive == [id |-> "", top |-> ""]

\* the inputs of the install commands; the interleaved runtime is explored
\* on two version tags and one archive
InstallTags(all) == IF mode = "seq" THEN all ELSE Versions

InstallArchives == IF mode = "seq" THEN Archives ELSE {a \in Archives : a.id = "A"}

IdleProc ==
    [pc |-> "idle", op |-> "", tag |-> <<>>, update |-> FALSE, default |-> FALSE,
     arch |-> NoArchive, wres |-> "", owns |-> FALSE, should_not_block |-> FALSE,
     state |-> "", chunks |-> 0, pending |-> "", msg |-> "", result |-> "",
     injected |-> FALSE, log |-> {}, pre |-> EmptyStore]

\* no pure function of the library has been called
NoCall == [fn |-> "", done |-> FALSE]

NoLast ==
    [op |-> "", a1 |-> <<>>, a2 |-> <<>>, flag |-> FALSE, ok |-> FALSE,
     msg |-> "", named |-> <<>>, pre |-> EmptyStore]

\* a store a killed earlier run left its scratch directory in
StaleStore == [EmptyStore EXCEPT ![TmpName(<<"1.22">>)] = Dir(Scratch(TRUE, "none"))]

InitCommon ==
    /\ cancelled = FALSE
    /\ procs = [p \in Procs |-> IdleProc]
    /\ last = NoLast
    /\ nops = 0

Init ==
    /\ InitCommon /\ mode = "seq" /\ fs \in {EmptyStore, StaleStore}
    /\ http = NoRequest /\ call = NoCall

InitConc ==
    InitCommon /\ mode = "conc" /\ fs = EmptyStore /\ http = NoRequest /\ call = NoCall

\* an HttpClient built from a configuration, and a URL an adapter requests
InitMirror ==
    /\ InitCommon /\ mode = "mirror" /\ fs = EmptyStore
    /\ \E mirror \in Mirrors, url \in Urls :
         http = [NoRequest EXCEPT !.mirror = mirror, !.url = url]
    /\ call = NoCall

AllIdle == \A p \in Procs : procs[p].pc \in {"idle", "returned"}

\* a command is started while no other is running and the flag is not set
\* (CancellableFuture::poll returns None before the first poll otherwise)
CanStart == AllIdle /\ ~cancelled /\ nops < MaxOps

(***************************************************************************)
(* Tag-store commands                                                      *)
(***************************************************************************)
Alias ==
    /\ CanStart
    /\ \E src_tag \in Tags, alias_tag \in Tags :
         LET r == create_alias_tag(fs, src_tag, alias_tag) IN
         /\ fs' = r.fs
         /\ last' = [NoLast EXCEPT !.op = "alias", !.a1 = src_tag, !.a2 = alias_tag,
                                   !.ok = r.ok, !.msg = r.msg, !.pre = fs]
    /\ nops' = nops + 1
    /\ procs' = [p \in Procs |-> IdleProc]
    /\ UNCHANGED <<cancelled, mode, http, call>>

Copy ==
    /\ CanStart
    /\ \E src_tag \in Tags, dest_tag \in Tags, copied \in BOOLEAN :
         LET r == copy_tag(fs, src_tag, dest_tag, copied) IN
         /\ fs' = r.fs
         /\ last' = [NoLast EXCEPT !.op = "copy", !.a1 = src_tag, !.a2 = dest_tag,
                                   !.ok = r.ok, !.msg = r.msg, !.pre = fs]
    /\ nops' = nops + 1
    /\ procs' = [p \in Procs |-> IdleProc]
    /\ UNCHANGED <<cancelled, mode, http, call>>

\* the delete command, its allow_dangling flag drawn from `flags`
DeleteTag(flags) ==
    /\ CanStart
    /\ \E tag_to_delete \in Tags, allow_dangling \in flags :
       \E named \in IF AliasesOf(fs, tag_to_delete) = {} THEN {<<>>}
                    ELSE AliasesOf(fs, tag_to_delete) :
         LET r == delete_tag(fs, tag_to_delete, allow_dangling, named) IN
         /\ fs' = r.fs
         /\ last' = [NoLast EXCEPT !.op = "delete", !.a1 = tag_to_delete,
                                   !.flag = allow_dangling, !.ok = r.ok,
                                   !.msg = r.msg, !.named = r.named, !.pre = fs]
    /\ nops' = nops + 1
    /\ procs' = [p \in Procs |-> IdleProc]
    /\ UNCHANGED <<cancelled, mode, http, call>>

Delete == DeleteTag(BOOLEAN)

\* delete as a caller that never opts in to a dangling alias issues it
DeleteKeepingAliases == DeleteTag({FALSE})

Clean ==
    /\ CanStart
    /\ \E order \in ReadDirOrders(fs) :
         /\ fs' = clean(fs, order)
         /\ last' = [NoLast EXCEPT !.op = "clean", !.ok = TRUE, !.pre = fs]
    /\ nops' = nops + 1
    /\ procs' = [p \in Procs |-> IdleProc]
    /\ UNCHANGED <<cancelled, mode, http, call>>

(***************************************************************************)
(* The install pipeline.  A driver's pc names the await it is suspended    *)
(* at; the worker closure or request that await waits for has taken its    *)
(* effect when the driver is polled again (`wres` is its result).  Every   *)
(* poll goes through CancellableFuture::poll, which returns None when the   *)
(* flag is set; the future is then dropped with the values it owns.        *)
(***************************************************************************)
\* a TmpDir whose drop leaves the directory behind
TmpDir_drop_leak(f, path) == f

\* TmpDir::drop: remove_dir_all, the error only logged
TmpDir_drop(f, path) == RemoveDirAll(f, path).fs

\* what TmpDir::drop logs: the warning of an inline removal, and the error
\* of a remove_dir_all that failed
TmpDir_drop_log(f, path, should_not_block, is_cancelled) ==
    (IF should_not_block /\ ~is_cancelled THEN {"Blocking remove"} ELSE {})
    \cup (IF RemoveDirAll(f, path).ok THEN {} ELSE {"Failed to remove directory"})

\* read_dir(&extracted_dir).take(2): the kinds of the first two children
\* the extraction of `arch` left in the extraction directory
entries(arch) ==
    CASE arch.top = "empty" -> <<>>
      [] arch.top = "single_dir" -> <<"dir">>
      [] arch.top = "single_file" -> <<"file">>
      [] arch.top = "multi" -> <<"dir", "file">>

MoveSource_extracted_dir(arch) == [layout |-> arch.top, id |-> arch.id]

\* what the rename of on_extracted moves into tag_dir: the single child
\* when it is a directory, the extraction directory otherwise
MoveSource(arch) ==
    IF Len(entries(arch)) = 1
    THEN IF entries(arch)[1] = "dir"
         THEN [layout |-> "inner", id |-> arch.id]
         ELSE [layout |-> arch.top, id |-> arch.id]
    ELSE [layout |-> arch.top, id |-> arch.id]

\* the blocking closure of on_extracted; io is the outcome of the rename
\* when the file system allows it
on_extracted_move(f, arch, tag, io) ==
    LET tmp == TmpName(tag)
        removed == IF PathExists(f, tag) THEN RemoveDirAll(f, tag)
                   ELSE [ok |-> TRUE, kind |-> "", fs |-> f]
        renamed == Rename(removed.fs, tag, MoveSource(arch))
    IN  IF ~(f[tmp].type = "dir" /\ f[tmp].content.layout = "scratch"
              /\ f[tmp].content.extracted = "full")
        THEN [ok |-> FALSE, fs |-> f]
        ELSE IF io # "ok" \/ ~renamed.ok
        THEN [ok |-> FALSE, fs |-> removed.fs]
        ELSE [ok |-> TRUE,
              fs |-> [renamed.fs EXCEPT ![tmp] =
                        Dir(Scratch(f[tmp].content.download,
                                    IF arch.top = "single_dir" THEN "hollow"
                                    ELSE "none"))]]

\* a closure whose TmpDir is forgotten when File::create fails
start_scratch_forget(f, tmp, io) ==
    LET made == CreateDirAll(f, tmp, Scratch(FALSE, "none")) IN
    IF io = "mkdir_err" \/ ~made.ok
    THEN [ok |-> FALSE, at |-> "create_dir_all", fs |-> f]
    ELSE IF io = "create_err" \/ made.fs[tmp].type # "dir"
    THEN [ok |-> FALSE, at |-> "File::create", fs |-> made.fs]
    ELSE [ok |-> TRUE, at |-> "",
          fs |-> [made.fs EXCEPT ![tmp] =
                    Dir(Scratch(TRUE, IF made.fs[tmp].content.layout = "scratch"
                                      THEN made.fs[tmp].content.extracted
                                      ELSE "none"))]]

\* the blocking closure of DownloadExtractState::start; `at` is the call
\* whose error ended it
start_scratch(f, tmp, io) ==
    LET made == CreateDirAll(f, tmp, Scratch(FALSE, "none")) IN
    IF io = "mkdir_err" \/ ~made.ok
    THEN [ok |-> FALSE, at |-> "create_dir_all", fs |-> f]
    ELSE IF io = "create_err" \/ made.fs[tmp].type # "dir"
    THEN [ok |-> FALSE, at |-> "File::create", fs |-> TmpDir_drop(made.fs, tmp)]
    ELSE [ok |-> TRUE, at |-> "",
          fs |-> [made.fs EXCEPT ![tmp] =
                    Dir(Scratch(TRUE, IF made.fs[tmp].content.layout = "scratch"
                                      THEN made.fs[tmp].content.extracted
                                      ELSE "none"))]]

\* a verify_hash that accepts every archive
verify_hash_skip(f, tmp, io) == "ok"

\* blocking::verify_hash on the downloaded archive
verify_hash(f, tmp, io) ==
    IF f[tmp].type = "dir" /\ f[tmp].content.layout = "scratch"
       /\ f[tmp].content.download
    THEN io
    ELSE "err"

\* blocking::extract_archive into <tmp>/extracted
extract_archive(f, tmp, io) ==
    IF f[tmp].type = "dir" /\ f[tmp].content.layout = "scratch"
       /\ f[tmp].content.download
    THEN [ok |-> io = "ok",
          fs |-> [f EXCEPT ![tmp] =
                    Dir(Scratch(TRUE, IF io = "ok" THEN "full" ELSE "partial"))]]
    ELSE IF f[tmp].type = "none"
    THEN [ok |-> FALSE, fs |-> [f EXCEPT ![tmp] = Dir(Scratch(FALSE, "partial"))]]
    ELSE [ok |-> FALSE, fs |-> f]

\* the blocking closure of install_from_archive: verify, extract into
\* tmp_dir, rename tmp_dir onto tag_dir
install_from_archive_work(f, tag, arch, io) ==
    LET tmp == TmpName(tag)
        cleared == [f EXCEPT ![tmp] = NoEntry]
        renamed == Rename(cleared, tag, [layout |-> arch.top, id |-> arch.id])
    IN  IF io # "ok" \/ ~renamed.ok
        THEN [ok |-> FALSE, fs |-> TmpDir_drop(f, tmp)]
        ELSE [ok |-> TRUE, fs |-> renamed.fs]

\* a precheck that never finds the path
precheck_exists_never(f, n) == "no"

\* the blocking closures of the prechecks: tag_dir.exists(), tmp_dir.exists()
precheck_exists(f, n) == IF PathExists(f, n) THEN "yes" ELSE "no"

SendOutcomes == {"ok", "err", "status", "unknown_type"}

ChunkOutcomes(n) ==
    {"none", "err", "some_write_err"} \cup (IF n < MaxChunks THEN {"some"} ELSE {})

Returned(r, result, msg) ==
    [r EXCEPT !.pc = "returned", !.result = result, !.msg = msg,
              !.owns = FALSE, !.wres = "", !.pending = ""]

At(p, pc) == p \in Active /\ procs[p].pc = pc

\* a poll that goes on to the inner future although the flag is set
CancelDrop_resume(p) ==
    /\ fs' = fs
    /\ procs' = [procs EXCEPT ![p] = Returned(procs[p], "ok", "")]

\* the future is dropped: a TmpDir it owns is removed inline
CancelDrop(p) ==
    /\ fs' = IF procs[p].owns THEN TmpDir_drop(fs, TmpName(procs[p].tag)) ELSE fs
    /\ procs' = [procs EXCEPT ![p] =
                   [Returned(procs[p], "cancelled", "") EXCEPT !.log =
                      IF procs[p].owns
                      THEN @ \cup TmpDir_drop_log(fs, TmpName(procs[p].tag),
                                                  procs[p].should_not_block, cancelled)
                      ELSE @]]

\* the command ends with an error, nothing being owned
Fail(p, msg) ==
    /\ fs' = fs
    /\ procs' = [procs EXCEPT ![p] = Returned(procs[p], "err", msg)]

\* an advance() whose Extracting arm hands back Downloading
AdvanceDrop_rewind(p, pending, msg) ==
    /\ fs' = TmpDir_drop(fs, TmpName(procs[p].tag))
    /\ procs' = [procs EXCEPT ![p] =
                   [procs[p] EXCEPT !.pc = "drop", !.pending = pending, !.msg = msg,
                                    !.owns = FALSE, !.should_not_block = FALSE,
                                    !.state = IF pending = "ok" THEN "Downloading" ELSE @,
                                    !.wres = "ok"]]

\* an advance() that lets local_tmp_dir go out of scope where it is
AdvanceDrop_inline(p, pending, msg) ==
    /\ fs' = TmpDir_drop(fs, TmpName(procs[p].tag))
    /\ procs' = [procs EXCEPT ![p] =
                   [procs[p] EXCEPT !.pc = "drop", !.pending = pending, !.msg = msg,
                                    !.owns = FALSE,
                                    !.state = IF pending = "ok" THEN "Stopped" ELSE @,
                                    !.wres = "ok",
                                    !.log = @ \cup TmpDir_drop_log(
                                              fs, TmpName(procs[p].tag),
                                              procs[p].should_not_block,
                                              cancelled)]]

\* advance(): do_advance left the TmpDir in local_tmp_dir; the worker clears
\* should_not_block and drops it, and `pending` is returned after that
AdvanceDrop(p, pending, msg) ==
    /\ fs' = TmpDir_drop(fs, TmpName(procs[p].tag))
    /\ procs' = [procs EXCEPT ![p] =
                   [procs[p] EXCEPT !.pc = "drop", !.pending = pending, !.msg = msg,
                                    !.owns = FALSE, !.should_not_block = FALSE,
                                    !.state = IF pending = "ok" THEN "Stopped" ELSE @,
                                    !.wres = "ok",
                                    !.log = @ \cup TmpDir_drop_log(
                                              fs, TmpName(procs[p].tag), FALSE,
                                              cancelled)]]

PipelineCanStart(p) ==
    /\ p \in Active
    /\ procs[p].pc \in {"idle", "returned"}
    /\ ~cancelled
    /\ nops < MaxOps
    /\ mode = "seq" => AllIdle
    /\ mode = "conc" => nops < MaxConcOps

\* InstallArgs::install up to the await of get_down_info; tag <<>> stands
\* for get_down_info failing
StartInstall(p) ==
    /\ PipelineCanStart(p)
    /\ \E tag \in InstallTags(DerivedTags) \cup {<<>>}, update \in BOOLEAN,
          default \in BOOLEAN, arch \in InstallArchives :
         /\ tag = <<>> => (~update /\ ~default /\ arch.id = "A")
         /\ procs' = [procs EXCEPT ![p] =
                        [IdleProc EXCEPT !.pc = "get_down_info", !.op = "install",
                                         !.tag = tag, !.update = update,
                                         !.default = default, !.arch = arch,
                                         !.wres = IF tag = <<>> THEN "err" ELSE "ok",
                                         !.injected = (tag = <<>>),
                                         !.pre = fs]]
    /\ nops' = nops + 1
    /\ last' = NoLast
    /\ UNCHANGED <<fs, cancelled, mode, http, call>>

\* install_from_archive up to its first await
StartInstallFromArchive(p) ==
    /\ PipelineCanStart(p)
    /\ \E tag \in InstallTags(Tags), update \in BOOLEAN, default \in BOOLEAN,
          arch \in InstallArchives :
         LET r == [IdleProc EXCEPT !.op = "install_from_archive", !.tag = tag,
                                   !.update = update, !.default = default,
                                   !.arch = arch, !.pre = fs]
         IN  procs' = [procs EXCEPT ![p] =
               IF starts_with(tag, TMP_PREFIX)
               THEN Returned(r, "err", "reserved")
               ELSE IF update
               THEN [r EXCEPT !.pc = "tmp_exists",
                              !.wres = precheck_exists(fs, TmpName(tag))]
               ELSE [r EXCEPT !.pc = "tag_exists",
                              !.wres = precheck_exists(fs, tag)]]
    /\ nops' = nops + 1
    /\ last' = NoLast
    /\ UNCHANGED <<fs, cancelled, mode, http, call>>

GotDownInfo(p) ==
    /\ At(p, "get_down_info")
    /\ IF cancelled THEN CancelDrop(p)
       ELSE IF procs[p].wres = "err" THEN Fail(p, "get_down_info")
       ELSE IF starts_with(procs[p].tag, TMP_PREFIX) THEN Fail(p, "reserved")
       ELSE /\ fs' = fs
            /\ procs' = [procs EXCEPT ![p] =
                 IF procs[p].update
                 THEN [procs[p] EXCEPT !.pc = "tmp_exists",
                         !.wres = precheck_exists(fs, TmpName(procs[p].tag))]
                 ELSE [procs[p] EXCEPT !.pc = "tag_exists",
                         !.wres = precheck_exists(fs, procs[p].tag)]]
    /\ UNCHANGED <<cancelled, last, nops, mode, http, call>>

TagExists(p) ==
    /\ At(p, "tag_exists")
    /\ IF cancelled THEN CancelDrop(p)
       ELSE IF procs[p].wres = "yes" THEN Fail(p, "already exists")
       ELSE /\ fs' = fs
            /\ procs' = [procs EXCEPT ![p] =
                 [procs[p] EXCEPT !.pc = "tmp_exists",
                    !.wres = precheck_exists(fs, TmpName(procs[p].tag))]]
    /\ UNCHANGED <<cancelled, last, nops, mode, http, call>>

TmpExists(p) ==
    /\ At(p, "tmp_exists")
    /\ IF cancelled THEN CancelDrop(p)
       ELSE IF procs[p].wres = "yes" THEN Fail(p, "is installing")
       ELSE IF procs[p].op = "install"
       THEN \E out \in SendOutcomes :
              /\ fs' = fs
              /\ procs' = [procs EXCEPT ![p] =
                   [procs[p] EXCEPT !.pc = "send", !.wres = out,
                                    !.injected = (out # "ok")]]
       ELSE \E io \in {"ok", "hash_err", "extract_err"} :
              LET r == install_from_archive_work(fs, procs[p].tag, procs[p].arch, io)
              IN  /\ fs' = r.fs
                  /\ procs' = [procs EXCEPT ![p] =
                       [procs[p] EXCEPT !.pc = "a_work",
                                        !.wres = IF r.ok THEN "ok" ELSE "err",
                                        !.injected = (io # "ok")]]
    /\ UNCHANGED <<cancelled, last, nops, mode, http, call>>

\* DownloadExtractState::start after the response arrived
Sent(p) ==
    /\ At(p, "send")
    /\ IF cancelled THEN CancelDrop(p)
       ELSE IF procs[p].wres # "ok" THEN Fail(p, procs[p].wres)
       ELSE \E io \in {"ok", "mkdir_err", "create_err"} :
              LET r == start_scratch(fs, TmpName(procs[p].tag), io) IN
              /\ fs' = r.fs
              /\ procs' = [procs EXCEPT ![p] =
                   [procs[p] EXCEPT !.pc = "mkscratch",
                                    !.wres = IF r.ok THEN "ok" ELSE r.at,
                                    !.owns = r.ok,
                                    !.injected = (io # "ok")]]
    /\ UNCHANGED <<cancelled, last, nops, mode, http, call>>

\* start returns Downloading; the caller's first advance() awaits a chunk
ScratchMade(p) ==
    /\ At(p, "mkscratch")
    /\ IF cancelled THEN CancelDrop(p)
       ELSE IF procs[p].wres # "ok" THEN Fail(p, procs[p].wres)
       ELSE \E out \in ChunkOutcomes(0) :
              /\ fs' = fs
              /\ procs' = [procs EXCEPT ![p] =
                   [procs[p] EXCEPT !.pc = "chunk", !.wres = out,
                                    !.should_not_block = TRUE,
                                    !.state = "Downloading",
                                    !.injected = (out \in {"err", "some_write_err"})]]
    /\ UNCHANGED <<cancelled, last, nops, mode, http, call>>

\* do_advance in Downloading, after response.chunk() completed
Chunk(p) ==
    /\ At(p, "chunk")
    /\ IF cancelled THEN CancelDrop(p)
       ELSE IF procs[p].wres \in {"err", "some_write_err"}
       THEN AdvanceDrop(p, "err", "chunk")
       ELSE IF procs[p].wres = "some"
       THEN \E out \in ChunkOutcomes(procs[p].chunks + 1) :
              /\ fs' = fs
              /\ procs' = [procs EXCEPT ![p] =
                   [procs[p] EXCEPT !.chunks = @ + 1, !.wres = out,
                                    !.injected = (out \in {"err", "some_write_err"})]]
       ELSE \E io \in {"ok", "mismatch"} :
              /\ fs' = fs
              /\ procs' = [procs EXCEPT ![p] =
                   [procs[p] EXCEPT !.pc = "verify",
                      !.wres = verify_hash(fs, TmpName(procs[p].tag), io),
                      !.injected = (io # "ok")]]
    /\ UNCHANGED <<cancelled, last, nops, mode, http, call>>

\* a do_advance that goes on to Extracting whatever on_downloaded returned
Verified_unchecked(p) ==
    /\ At(p, "verify")
    /\ IF cancelled THEN CancelDrop(p)
       ELSE \E io \in {"ok", "err"} :
              LET r == extract_archive(fs, TmpName(procs[p].tag), io) IN
              /\ fs' = r.fs
              /\ procs' = [procs EXCEPT ![p] =
                   [procs[p] EXCEPT !.pc = "extract", !.state = "Extracting",
                                    !.wres = IF r.ok THEN "ok" ELSE "err",
                                    !.injected = (io # "ok")]]
    /\ UNCHANGED <<cancelled, last, nops, mode, http, call>>

\* on_downloaded returned; Extracting; the next advance() awaits extraction
Verified(p) ==
    /\ At(p, "verify")
    /\ IF cancelled THEN CancelDrop(p)
       ELSE IF procs[p].wres # "ok" THEN AdvanceDrop(p, "err", "hash")
       ELSE \E io \in {"ok", "err"} :
              LET r == extract_archive(fs, TmpName(procs[p].tag), io) IN
              /\ fs' = r.fs
              /\ procs' = [procs EXCEPT ![p] =
                   [procs[p] EXCEPT !.pc = "extract", !.state = "Extracting",
                                    !.wres = IF r.ok THEN "ok" ELSE "err",
                                    !.injected = (io # "ok")]]
    /\ UNCHANGED <<cancelled, last, nops, mode, http, call>>

\* extraction returned; on_extracted awaits its first closure
Extracted(p) ==
    /\ At(p, "extract")
    /\ IF cancelled THEN CancelDrop(p)
       ELSE IF procs[p].wres # "ok" THEN AdvanceDrop(p, "err", "extract")
       ELSE \E io \in {"ok", "rename_err"} :
              LET r == on_extracted_move(fs, procs[p].arch, procs[p].tag, io) IN
              /\ fs' = r.fs
              /\ procs' = [procs EXCEPT ![p] =
                   [procs[p] EXCEPT !.pc = "move",
                                    !.wres = IF r.ok THEN "ok" ELSE "err",
                                    !.injected = (io # "ok")]]
    /\ UNCHANGED <<cancelled, last, nops, mode, http, call>>

\* the rename returned; on_extracted sets the default alias when asked
Moved(p) ==
    /\ At(p, "move")
    /\ IF cancelled THEN CancelDrop(p)
       ELSE IF procs[p].wres # "ok" THEN AdvanceDrop(p, "err", "rename")
       ELSE IF procs[p].default
       THEN LET r == set_alias_tag(fs, procs[p].tag, DEFAULT_TAG) IN
            /\ fs' = r.fs
            /\ procs' = [procs EXCEPT ![p] =
                 [procs[p] EXCEPT !.pc = "alias",
                                  !.wres = IF r.ok THEN "ok" ELSE "err"]]
       ELSE AdvanceDrop(p, "ok", "")
    /\ UNCHANGED <<cancelled, last, nops, mode, http, call>>

Aliased(p) ==
    /\ At(p, "alias")
    /\ IF cancelled THEN CancelDrop(p)
       ELSE IF procs[p].wres # "ok" THEN AdvanceDrop(p, "err", "alias")
       ELSE AdvanceDrop(p, "ok", "")
    /\ UNCHANGED <<cancelled, last, nops, mode, http, call>>

\* advance() returns; status() of Stopped ends the caller's loop
Dropped(p) ==
    /\ At(p, "drop")
    /\ IF cancelled THEN CancelDrop(p)
       ELSE /\ fs' = fs
            /\ procs' = [procs EXCEPT ![p] =
                 Returned(procs[p], procs[p].pending, procs[p].msg)]
    /\ UNCHANGED <<cancelled, last, nops, mode, http, call>>

\* advance() called on the Stopped state an install ended with: do_advance
\* returns Err("Already stopped"), no TmpDir is met
AdvanceStopped(p) ==
    /\ p \in Active
    /\ procs[p].pc = "returned" /\ procs[p].op = "install"
    /\ procs[p].result = "ok" /\ procs[p].state = "Stopped"
    /\ ~cancelled
    /\ procs' = [procs EXCEPT ![p] =
                   [procs[p] EXCEPT !.op = "advance", !.result = "err",
                                    !.msg = "Already stopped"]]
    /\ UNCHANGED <<fs, cancelled, last, nops, mode, http, call>>

\* install_from_archive after its blocking closure returned: the path the
\* closure returns is the one taken out of tmp_dir
ArchiveWorked(p) ==
    /\ At(p, "a_work")
    /\ IF cancelled THEN CancelDrop(p)
       ELSE IF procs[p].wres # "ok" THEN Fail(p, "archive")
       ELSE IF procs[p].default
       THEN LET r == set_alias_tag(fs, TmpName(procs[p].tag), DEFAULT_TAG) IN
            /\ fs' = r.fs
            /\ procs' = [procs EXCEPT ![p] =
                 [procs[p] EXCEPT !.pc = "a_alias",
                                  !.wres = IF r.ok THEN "ok" ELSE "err"]]
       ELSE /\ fs' = fs
            /\ procs' = [procs EXCEPT ![p] = Returned(procs[p], "ok", "")]
    /\ UNCHANGED <<cancelled, last, nops, mode, http, call>>

ArchiveAliased(p) ==
    /\ At(p, "a_alias")
    /\ IF cancelled THEN CancelDrop(p)
       ELSE IF procs[p].wres # "ok" THEN Fail(p, "alias")
       ELSE /\ fs' = fs
            /\ procs' = [procs EXCEPT ![p] = Returned(procs[p], "ok", "")]
    /\ UNCHANGED <<cancelled, last, nops, mode, http, call>>

\* the ctrlc handler: set_cancelled()
SetCancelled ==
    /\ ~cancelled
    /\ cancelled' = TRUE
    /\ UNCHANGED <<fs, procs, last, nops, mode, http, call>>

Next ==
    \/ Alias
    \/ Copy
    \/ Delete
    \/ Clean
    \/ SetCancelled
    \/ \E p \in Procs : StartInstall(p)
    \/ \E p \in Procs : StartInstallFromArchive(p)
    \/ \E p \in Procs : GotDownInfo(p)
    \/ \E p \in Procs : TagExists(p)
    \/ \E p \in Procs : TmpExists(p)
    \/ \E p \in Procs : Sent(p)
    \/ \E p \in Procs : ScratchMade(p)
    \/ \E p \in Procs : Chunk(p)
    \/ \E p \in Procs : Verified(p)
    \/ \E p \in Procs : Extracted(p)
    \/ \E p \in Procs : Moved(p)
    \/ \E p \in Procs : Aliased(p)
    \/ \E p \in Procs : Dropped(p)
    \/ \E p \in Procs : AdvanceStopped(p)
    \/ \E p \in Procs : ArchiveWorked(p)
    \/ \E p \in Procs : ArchiveAliased(p)

Spec == Init /\ [][Next]_vars

\* a tool directory that does not exist yet
InitEmpty ==
    /\ InitCommon /\ mode = "seq" /\ fs = EmptyStore
    /\ http = NoRequest /\ call = NoCall

\* the commands, delete never being allowed to leave a dangling alias
NextKeepingAliases ==
    \/ Alias
    \/ Copy
    \/ DeleteKeepingAliases
    \/ Clean
    \/ SetCancelled
    \/ \E p \in Procs : StartInstall(p)
    \/ \E p \in Procs : StartInstallFromArchive(p)
    \/ \E p \in Procs : GotDownInfo(p)
    \/ \E p \in Procs : TagExists(p)
    \/ \E p \in Procs : TmpExists(p)
    \/ \E p \in Procs : Sent(p)
    \/ \E p \in Procs : ScratchMade(p)
    \/ \E p \in Procs : Chunk(p)
    \/ \E p \in Procs : Verified(p)
    \/ \E p \in Procs : Extracted(p)
    \/ \E p \in Procs : Moved(p)
    \/ \E p \in Procs : Aliased(p)
    \/ \E p \in Procs : Dropped(p)
    \/ \E p \in Procs : AdvanceStopped(p)
    \/ \E p \in Procs : ArchiveWorked(p)
    \/ \E p \in Procs : ArchiveAliased(p)

SpecKeepingAliases == InitEmpty /\ [][NextKeepingAliases]_vars

\* two install commands started in one runtime, interleaving at their awaits
NextConc ==
    \/ SetCancelled
    \/ \E p \in Procs : StartInstall(p)
    \/ \E p \in Procs : StartInstallFromArchive(p)
    \/ \E p \in Procs : GotDownInfo(p)
    \/ \E p \in Procs : TagExists(p)
    \/ \E p \in Procs : TmpExists(p)
    \/ \E p \in Procs : Sent(p)
    \/ \E p \in Procs : ScratchMade(p)
    \/ \E p \in Procs : Chunk(p)
    \/ \E p \in Procs : Verified(p)
    \/ \E p \in Procs : Extracted(p)
    \/ \E p \in Procs : Moved(p)
    \/ \E p \in Procs : Aliased(p)
    \/ \E p \in Procs : Dropped(p)
    \/ \E p \in Procs : AdvanceStopped(p)
    \/ \E p \in Procs : ArchiveWorked(p)
    \/ \E p \in Procs : ArchiveAliased(p)

SpecConc == InitConc /\ [][NextConc]_vars

\* HttpClient::get(url): the request is built for the rewritten URL
Get ==
    /\ mode = "mirror"
    /\ ~http.sent
    /\ LET r == get(http.mirror, http.url) IN
       http' = [http EXCEPT !.sent = TRUE, !.out = r.url, !.entry = r.entry]
    /\ UNCHANGED <<fs, cancelled, procs, last, nops, mode, call>>

NextMirror == Get

SpecMirror == InitMirror /\ [][NextMirror]_vars

\* a path handed to ArchiveType::from_path
InitArchive ==
    /\ InitCommon /\ mode = "archive" /\ fs = EmptyStore /\ http = NoRequest
    /\ \E path \in Paths : call = [fn |-> "from_path", done |-> FALSE, path |-> path]

\* ArchiveType::from_path(path)
FromPath ==
    /\ mode = "archive"
    /\ ~call.done
    /\ call' = [fn |-> "from_path", done |-> TRUE, path |-> call.path,
                out |-> from_path(call.path)]
    /\ UNCHANGED <<fs, cancelled, procs, last, nops, mode, http>>

\* the ways the file system answers create_dir_all, File::open and the
\* unpacking of extract_archive
ExtractOutcomes == {"ok", "err"}

\* the `match archive_type` of io::blocking::extract_archive, reached after
\* create_dir_all and File::open: it has an arm for Zip and an arm for
\* TarGz and none for TarXz, so no decoder is ever run on a .tar.xz
\* archive; whether the call then ends Ok(()) or Err is left open (io),
\* nothing is unpacked.  The extract_archive operator of the pipeline
\* above is the Zip / TarGz case with its file-system effect.
extract_archive_match(archive_type, io) ==
    IF archive_type \in {"Zip", "TarGz"}
    THEN [ok |-> io = "ok", unpacked |-> io = "ok"]
    ELSE [ok |-> io = "ok", unpacked |-> FALSE]

\* the pipeline hands the detected type to extract_archive
\* (io/mod.rs do_advance, Extracting)
ExtractArchive ==
    /\ mode = "archive"
    /\ call.fn = "from_path" /\ call.done /\ call.out.ok
    /\ \E io \in ExtractOutcomes :
         call' = [fn |-> "extract_archive", done |-> TRUE, path |-> call.path,
                  out |-> call.out, io |-> io,
                  result |-> extract_archive_match(call.out.type, io)]
    /\ UNCHANGED <<fs, cancelled, procs, last, nops, mode, http>>

NextArchive == FromPath \/ ExtractArchive

SpecArchive == InitArchive /\ [][NextArchive]_vars

\* two parsed versions of one tool about to be compared
InitOrder ==
    /\ InitCommon /\ mode = "order" /\ fs = EmptyStore /\ http = NoRequest
    /\ \E tool \in Tools :
       \E a \in ParsedVersions(tool), b \in ParsedVersions(tool) :
         call = [fn |-> "cmp", done |-> FALSE, tool |-> tool, a |-> a, b |-> b]

\* a.cmp(&b) and b.cmp(&a), as sort_by and max_by call them
Compare ==
    /\ mode = "order"
    /\ ~call.done
    /\ call' = [fn |-> "cmp", done |-> TRUE, tool |-> call.tool,
                a |-> call.a, b |-> call.b,
                out |-> cmp(call.tool, call.a, call.b),
                rev |-> cmp(call.tool, call.b, call.a)]
    /\ UNCHANGED <<fs, cancelled, procs, last, nops, mode, http>>

NextOrder == Compare

SpecOrder == InitOrder /\ [][NextOrder]_vars

\* the releases the filter of an adapter can be applied to: the label parses
\* (Go, Node), the entry carries a liberica component (NIK)
Filterable(tool) ==
    CASE tool = "go" -> {r \in GoReleases : parse_go_version(r.version).ok}
      [] tool = "node" -> {r \in NodeReleases : parse_node_version(r.version).ok}
      [] tool = "liberica" -> {r \in NikReleases : is_some(java_component(r))}

\* an adapter, the catalog its upstream answers with and the filter of the
\* command line
InitCatalog ==
    /\ InitCommon /\ mode = "catalog" /\ fs = EmptyStore /\ http = NoRequest
    /\ \E tool \in Tools :
       \E version_filter \in VersionFilters(tool) :
         \/ \E fn \in {"fetch_versions", "get_down_info"}, flavor \in Flavors(tool) :
            \E catalog \in Catalogs(tool, flavor)
                             \cup (IF tool = "go" THEN {GoExampleCatalog} ELSE {}) :
              call = [fn |-> fn, done |-> FALSE, tool |-> tool, flavor |-> flavor,
                      catalog |-> catalog, version_filter |-> version_filter]
         \/ \E r \in Filterable(tool) :
              call = [fn |-> "matches", done |-> FALSE, tool |-> tool,
                      flavor |-> IF tool = "liberica" THEN "nik_standard" ELSE "none",
                      catalog |-> <<r>>, version_filter |-> version_filter]

\* Tool::fetch_versions
FetchVersions ==
    /\ mode = "catalog"
    /\ call.fn = "fetch_versions" /\ ~call.done
    /\ call' = [call EXCEPT !.done = TRUE] @@
               [out |-> fetch_versions(call.tool, call.flavor, call.catalog,
                                       call.version_filter)]
    /\ UNCHANGED <<fs, cancelled, procs, last, nops, mode, http>>

\* Tool::get_down_info
GetDownInfo ==
    /\ mode = "catalog"
    /\ call.fn = "get_down_info" /\ ~call.done
    /\ call' = [call EXCEPT !.done = TRUE] @@
               [out |-> get_down_info(call.tool, call.flavor, call.catalog,
                                      call.version_filter)]
    /\ UNCHANGED <<fs, cancelled, procs, last, nops, mode, http>>

\* GoVersionFilter::matches, NodeVersionFilter::verify and the filter of
\* fetch_nik_releases applied to one release
FilterMatches ==
    /\ mode = "catalog"
    /\ call.fn = "matches" /\ ~call.done
    /\ LET r == call.catalog[1]
           f == try_from(call.version_filter)
           admitted ==
             CASE call.tool = "go" ->
                    GoVersionFilter_matches(f, parse_go_version(r.version).raw,
                                            parse_go_version(r.version).version)
               [] call.tool = "node" ->
                    NodeVersionFilter_verify(f, parse_node_version(r.version).raw,
                                             parse_node_version(r.version).version,
                                             LtsDto_is(r.lts))
               [] call.tool = "liberica" ->
                    fetch_nik_releases(call.catalog, call.version_filter).releases # <<>>
       IN call' = [call EXCEPT !.done = TRUE] @@ [out |-> admitted]
    /\ UNCHANGED <<fs, cancelled, procs, last, nops, mode, http>>

NextCatalog == FetchVersions \/ GetDownInfo \/ FilterMatches

SpecCatalog == InitCatalog /\ [][NextCatalog]_vars

\* a FileHash and the file verify_hash is called on
InitHash ==
    /\ InitCommon /\ mode = "hash" /\ fs = EmptyStore /\ http = NoRequest
    /\ \E hash \in FileHashes, file \in Files :
         call = [fn |-> "verify_hash", done |-> FALSE, hash |-> hash, file |-> file]

\* blocking::verify_hash(hash, path)
VerifyHash ==
    /\ mode = "hash"
    /\ ~call.done
    /\ call' = [fn |-> "verify_hash", done |-> TRUE, hash |-> call.hash,
                file |-> call.file, out |-> blocking_verify_hash(call.hash, call.file)]
    /\ UNCHANGED <<fs, cancelled, procs, last, nops, mode, http>>

NextHash == VerifyHash

SpecHash == InitHash /\ [][NextHash]_vars

(***************************************************************************)
(* Progress of DownloadExtractState: status() and advance() on the sizes   *)
(***************************************************************************)
\* the lengths of the chunks response.chunk() yields before the stream ends
Bodies == UNION {[1..k -> 0..MaxChunkLen] : k \in 0..MaxBody}

\* response.content_length()
TotalSizes == {<<>>} \cup {<<t>> : t \in 0..(MaxBody * MaxChunkLen)}

\* the state start() returns
Downloading(total_size) ==
    [name |-> "Downloading", total_size |-> total_size, downloaded_size |-> 0]

Extracting == [name |-> "Extracting"]

Stopped == [name |-> "Stopped"]

\* DownloadExtractState::status
status(s) ==
    CASE s.name = "Downloading" ->
           [variant |-> "InProgress", name |-> "Downloading",
            progress_ratio |-> IF s.total_size = <<>> THEN <<>>
                               ELSE << <<s.downloaded_size, s.total_size[1]>> >>]
      [] s.name = "Extracting" ->
           [variant |-> "InProgress", name |-> "Extracting", progress_ratio |-> <<>>]
      [] s.name = "Stopped" ->
           [variant |-> "Stopped", name |-> "", progress_ratio |-> <<>>]

\* a Downloading arm that counts chunks instead of bytes
received_one(s, chunk_len) == [s EXCEPT !.downloaded_size = @ + 1]

\* the Downloading arm of do_advance on Some(chunk), after write_all
received(s, chunk_len) == [s EXCEPT !.downloaded_size = @ + chunk_len]

\* an Extracting arm that hands the state back as it got it
do_advance_Extracting_again(s) == s

\* the Extracting arm of do_advance after extract_archive and on_extracted
\* returned Ok
do_advance_Extracting(s) == Stopped

\* a download about to be driven: the body the response will deliver and
\* the size it declared
InitProgress ==
    /\ InitCommon /\ mode = "progress" /\ fs = EmptyStore /\ http = NoRequest
    /\ \E body \in Bodies, total_size \in TotalSizes :
         call = [fn |-> "status", done |-> FALSE, state |-> Downloading(total_size),
                 body |-> body, file |-> 0, completed |-> <<>>, out |-> <<>>,
                 result |-> ""]

\* the driver's status(): Stopped ends its loop
StatusCall ==
    /\ mode = "progress"
    /\ ~call.done /\ call.fn = "status"
    /\ call' = [call EXCEPT !.out = <<status(call.state)>>,
                            !.fn = "advance",
                            !.done = (call.state.name = "Stopped"),
                            !.result = IF call.state.name = "Stopped" THEN "ok" ELSE @]
    /\ UNCHANGED <<fs, cancelled, procs, last, nops, mode, http>>

\* the driver's advance().await?
AdvanceCall ==
    /\ mode = "progress"
    /\ ~call.done /\ call.fn = "advance"
    /\ \/ /\ call.state.name = "Downloading" /\ call.body # <<>>
          /\ \/ call' = [call EXCEPT !.state = received(@, Head(call.body)),
                                     !.body = Tail(@),
                                     !.file = @ + Head(call.body),
                                     !.completed = Append(@, Head(call.body)),
                                     !.fn = "status"]
             \/ \E written \in 0..Head(call.body) :
                  call' = [call EXCEPT !.file = @ + written, !.done = TRUE,
                                       !.result = "err"]
       \/ /\ call.state.name = "Downloading" /\ call.body = <<>>
          /\ \/ call' = [call EXCEPT !.state = Extracting, !.fn = "status"]
             \/ call' = [call EXCEPT !.done = TRUE, !.result = "err"]
       \/ /\ call.state.name = "Extracting"
          /\ \/ call' = [call EXCEPT !.state = do_advance_Extracting(@),
                                     !.fn = "status"]
             \/ call' = [call EXCEPT !.done = TRUE, !.result = "err"]
    /\ UNCHANGED <<fs, cancelled, procs, last, nops, mode, http>>

NextProgress == StatusCall \/ AdvanceCall

SpecProgress == InitProgress /\ [][NextProgress]_vars

\* The driver is one future that block_on polls until it is ready: status()
\* is synchronous, and an advance() that is awaiting a chunk or a worker
\* step is woken when that step completes.  With a finite body and worker
\* steps that complete, an enabled driver step is therefore taken.
SpecProgressFair ==
    SpecProgress /\ WF_vars(StatusCall) /\ WF_vars(AdvanceCall)

(***************************************************************************)
(* parse_go_version on arbitrary labels                                    *)
(***************************************************************************)
GoPieces == {"go", "1", "24", ".", "beta", "rc", "x", "+"}

\* a dotted head of up to four parts, each empty, a number or a letter
RECURSIVE Dotted(_)
Dotted(k) ==
    LET part == {<<>>, <<"1">>, <<"x">>} IN
    IF k = 1 THEN part
    ELSE {h \o <<".">> \o c : h \in Dotted(k - 1), c \in part}

\* the labels parse_go_version is called with: every short sequence of
\* pieces, and 'go' labels of up to four dotted parts with a pre-release tail
ParseLabels ==
    UNION {[1..k -> GoPieces] : k \in 0..MaxLabelLen}
      \cup {<<"go">> \o h \o t :
              h \in UNION {Dotted(k) : k \in 1..4},
              t \in {<<>>, <<"rc">>, <<"rc", "1">>, <<"beta", "24">>,
                     <<"beta", "x">>, <<"rc", "+", "1">>}}

InitParse ==
    /\ InitCommon /\ mode = "parse" /\ fs = EmptyStore /\ http = NoRequest
    /\ \E s \in ParseLabels :
         call = [fn |-> "parse_go_version", done |-> FALSE, s |-> s]

\* parse_go_version(s)
ParseGoVersion ==
    /\ mode = "parse"
    /\ ~call.done
    /\ call' = [fn |-> "parse_go_version", done |-> TRUE, s |-> call.s,
                out |-> parse_go_version(call.s)]
    /\ UNCHANGED <<fs, cancelled, procs, last, nops, mode, http>>

NextParse == ParseGoVersion

SpecParse == InitParse /\ [][NextParse]_vars

(***************************************************************************)
(* The Extracting arm of do_advance with its blocking closures as a        *)
(* thread of their own.  tokio::task::spawn_blocking hands the closure to  *)
(* a pool thread; dropping the JoinHandle (the driver's future is dropped  *)
(* when CancellableFuture::poll sees the flag) does not stop the closure,  *)
(* and the runtime waits for it when it shuts down.  Future::poll may be   *)
(* called while the closure is still running.                              *)
(***************************************************************************)
WorkerTag == <<"1.21">>

\* the steps of the closure of do_advance (extract_archive), then of the
\* closure of on_extracted
WorkerSteps == <<"create_dir_all", "open", "unpack", "read_dir", "remove_dir_all",
                 "rename">>

\* the store an advance() in Extracting starts from: the archive is
\* downloaded; the tag is absent, or holds an earlier installation (update)
WorkerStores ==
    {[EmptyStore EXCEPT ![TmpName(WorkerTag)] = Dir(Scratch(TRUE, "none")),
                        ![WorkerTag] = t] :
        t \in {NoEntry, Dir([layout |-> "multi", id |-> "B"])}}

\* one step of a closure on the store
worker_step(f, step, arch) ==
    LET tmp == TmpName(WorkerTag)
        there == f[tmp].type = "dir"
    IN  CASE step = "create_dir_all" ->
               [ok |-> TRUE,
                fs |-> IF there
                       THEN [f EXCEPT ![tmp] = Dir(Scratch(f[tmp].content.download, "hollow"))]
                       ELSE [f EXCEPT ![tmp] = Dir(Scratch(FALSE, "hollow"))]]
          [] step = "open" ->
               [ok |-> there /\ f[tmp].content.download, fs |-> f]
          [] step = "unpack" ->
               [ok |-> TRUE,
                fs |-> IF there
                       THEN [f EXCEPT ![tmp] = Dir(Scratch(f[tmp].content.download, "full"))]
                       ELSE [f EXCEPT ![tmp] = Dir(Scratch(FALSE, "full"))]]
          [] step = "read_dir" ->
               [ok |-> there /\ f[tmp].content.extracted # "none", fs |-> f]
          [] step = "remove_dir_all" ->
               [ok |-> TRUE,
                fs |-> IF PathExists(f, WorkerTag) THEN RemoveDirAll(f, WorkerTag).fs
                       ELSE f]
          [] step = "rename" ->
               IF there /\ f[tmp].content.extracted = "full"
               THEN LET r == Rename(f, WorkerTag, MoveSource(arch)) IN
                    [ok |-> r.ok,
                     fs |-> IF r.ok
                            THEN [r.fs EXCEPT ![tmp] =
                                    Dir(Scratch(f[tmp].content.download,
                                                IF arch.top = "single_dir"
                                                THEN "hollow" ELSE "none"))]
                            ELSE f]
               ELSE [ok |-> FALSE, fs |-> f]

InitWorker ==
    /\ InitCommon /\ mode = "worker" /\ http = NoRequest
    /\ fs \in WorkerStores
    /\ \E arch \in Archives :
         call = [fn |-> "advance", done |-> FALSE, arch |-> arch, result |-> "",
                 step |-> 1, running |-> TRUE, ok |-> TRUE, at_return |-> fs]

\* the pool thread runs the next step of the closure it was given
WorkerStep ==
    /\ mode = "worker"
    /\ call.running
    /\ LET name == WorkerSteps[call.step]
           r == worker_step(fs, name, call.arch)
       IN  /\ fs' = r.fs
           /\ call' = [call EXCEPT
                         !.ok = r.ok,
                         !.running = r.ok /\ name \notin {"unpack", "rename"},
                         !.step = IF r.ok /\ name \notin {"unpack", "rename"}
                                  THEN @ + 1 ELSE @]
    /\ UNCHANGED <<cancelled, procs, last, nops, mode, http>>

\* the driver is polled: CancellableFuture::poll, then the await of the
\* closure inside advance()
Poll ==
    /\ mode = "worker"
    /\ ~call.done
    /\ LET tmp == TmpName(WorkerTag) IN
       IF cancelled
       THEN /\ fs' = TmpDir_drop(fs, tmp)
            /\ call' = [call EXCEPT !.done = TRUE, !.result = "cancelled",
                                    !.at_return = fs']
       ELSE /\ ~call.running
            /\ IF call.ok /\ WorkerSteps[call.step] = "unpack"
               THEN /\ fs' = fs
                    /\ call' = [call EXCEPT !.step = @ + 1, !.running = TRUE]
               ELSE /\ fs' = TmpDir_drop(fs, tmp)
                    /\ call' = [call EXCEPT !.done = TRUE,
                                            !.result = IF call.ok THEN "ok" ELSE "err",
                                            !.at_return = fs']
    /\ UNCHANGED <<cancelled, procs, last, nops, mode, http>>

\* Ctrl-C while the install runs
CancelInstall ==
    /\ mode = "worker"
    /\ ~call.done
    /\ SetCancelled

NextWorker == WorkerStep \/ Poll \/ CancelInstall

SpecWorker == InitWorker /\ [][NextWorker]_vars

(***************************************************************************)
(* Claims                                                                  *)
(***************************************************************************)
Ret(p) == procs[p].pc = "returned"

IsInstall(p) == procs[p].op \in {"install", "install_from_archive"}

\* the installation an install of `arch` puts at tag_dir
NewInstall(p) ==
    IF procs[p].op = "install"
    THEN Dir(MoveSource(procs[p].arch))
    ELSE Dir([layout |-> procs[p].arch.top, id |-> procs[p].arch.id])

\* a concrete installation with something in it
IsNonEmptyInstall(e) ==
    e.type = "dir" /\ e.content.layout \notin {"empty", "scratch"}

\* C1: after every install (streaming, or from an archive) that returned
\* success, <tool_dir>/T is a concrete directory and <tool_dir>/.tmp.T does
\* not exist.
C1_SuccessfulInstallLayout ==
    \A p \in Procs :
        (Ret(p) /\ IsInstall(p) /\ procs[p].result = "ok")
            => /\ fs[procs[p].tag].type = "dir"
               /\ fs[TmpName(procs[p].tag)].type = "none"

C1_Witness ==
    \E p \in Procs :
        /\ Ret(p) /\ procs[p].op = "install" /\ procs[p].result = "ok"
        /\ procs[p].state = "Stopped"
        /\ fs[procs[p].tag] = NewInstall(p)

\* C2: after every install of T that failed or was cancelled once its scratch
\* name was free, <tool_dir>/.tmp.T does not exist and <tool_dir>/T is what
\* it was before the call.  (Stated for T other than default: an install
\* onto the name default is the subject of C7.)
C2_FailedInstallLeavesStore ==
    \A p \in Procs :
        (/\ Ret(p) /\ IsInstall(p)
         /\ procs[p].result \in {"err", "cancelled"}
         /\ procs[p].tag \in DerivedTags
         /\ ~starts_with(procs[p].tag, TMP_PREFIX)
         /\ procs[p].pre[TmpName(procs[p].tag)].type = "none")
            => /\ fs[TmpName(procs[p].tag)].type = "none"
               /\ fs[procs[p].tag] = procs[p].pre[procs[p].tag]

\* C3: two install pipelines never own the same scratch directory
\* <tool_dir>/.tmp.T at the same time.
C3_NoSharedScratch ==
    \A p, q \in Procs :
        (p # q /\ procs[p].owns /\ procs[q].owns)
            => procs[p].tag # procs[q].tag

\* C4: delete(t) without allow_dangling, t being the target of an alias a,
\* fails with an error naming such an alias and leaves every entry of the
\* store unchanged.
C4_DeleteOfAliasTargetRejected ==
    (/\ last.op = "delete" /\ ~last.flag
     /\ \E a \in Names : last.pre[a] = Link(last.a1))
        => /\ ~last.ok
           /\ last.msg = "is an alias target"
           /\ last.named \in Names /\ last.pre[last.named] = Link(last.a1)
           /\ fs = last.pre

\* C5: alias(src_tag, alias_tag), src_tag existing and alias_tag being an
\* alias link, succeeds and leaves alias_tag a link to src_tag.
C5_AliasReplacesLink ==
    (/\ last.op = "alias"
     /\ PathExists(last.pre, last.a1)
     /\ last.pre[last.a2].type = "link")
        => /\ last.ok
           /\ fs[last.a2] = Link(last.a1)

\* C6: alias onto a concrete directory fails and leaves that directory (and
\* the store) unchanged; alias of a src_tag that does not exist fails and
\* creates nothing.
C6_AliasRefusesNonLink ==
    last.op = "alias"
        => /\ last.pre[last.a2].type = "dir" => (~last.ok /\ fs = last.pre)
           /\ ~PathExists(last.pre, last.a1) => (~last.ok /\ fs = last.pre)

C6_Witness ==
    /\ last.op = "alias"
    /\ PathExists(last.pre, last.a1)
    /\ last.pre[last.a2].type = "dir"
    /\ ~last.ok
    /\ fs[last.a2] = last.pre[last.a2]

\* C7: the entry named default is never a concrete directory.
C7_DefaultIsNeverConcrete == fs[DEFAULT_TAG].type # "dir"

\* C8: no step creates an entry whose name begins with ".tmp." other than
\* the scratch directory of an install that is in progress.
C8_NoReservedNameCreated ==
    [][\A n \in Names :
          (starts_with(n, TMP_PREFIX) /\ fs[n].type = "none" /\ fs'[n].type # "none")
              => /\ fs'[n].type = "dir" /\ fs'[n].content.layout = "scratch"
                 /\ \E p \in Procs : procs'[p].owns /\ TmpName(procs'[p].tag) = n]_vars

\* C9: an install or install_from_archive with update set, of a T that is a
\* non-empty concrete directory, succeeds (no step failing in the
\* environment, no cancellation) and leaves the new installation at T.
\* (Stated for T other than default: an install onto the name default is the
\* subject of C7.)
C9_UpdateReplaces ==
    \A p \in Procs :
        (/\ Ret(p) /\ IsInstall(p)
         /\ procs[p].update
         /\ procs[p].tag \in DerivedTags
         /\ ~starts_with(procs[p].tag, TMP_PREFIX)
         /\ IsNonEmptyInstall(procs[p].pre[procs[p].tag])
         /\ procs[p].pre[TmpName(procs[p].tag)].type = "none"
         /\ ~procs[p].injected
         /\ procs[p].result # "cancelled")
            => /\ procs[p].result = "ok"
               /\ fs[procs[p].tag] = NewInstall(p)

\* C10: an install that reaches its prechecks is rejected with "already
\* exists" when update is false and tag_dir exists, and with "is installing"
\* when tmp_dir exists; the store, the .tmp.T entry included, is unchanged.
\* (exists is Path::exists, as the prechecks compute it.)
C10_PrecheckRejects ==
    \A p \in Procs :
        (/\ Ret(p) /\ IsInstall(p)
         /\ procs[p].result # "cancelled"
         /\ procs[p].msg \notin {"get_down_info", "reserved"})
            => /\ (~procs[p].update /\ PathExists(procs[p].pre, procs[p].tag))
                    => /\ procs[p].result = "err"
                       /\ procs[p].msg = "already exists"
                       /\ fs = procs[p].pre
               /\ (/\ PathExists(procs[p].pre, TmpName(procs[p].tag))
                   /\ (procs[p].update \/ ~PathExists(procs[p].pre, procs[p].tag)))
                    => /\ procs[p].result = "err"
                       /\ procs[p].msg = "is installing"
                       /\ fs = procs[p].pre
               /\ procs[p].msg \in {"already exists", "is installing"}
                    => fs = procs[p].pre

C10_Witness ==
    \E p \in Procs :
        /\ Ret(p) /\ procs[p].op = "install"
        /\ procs[p].msg = "is installing"
        /\ fs[TmpName(procs[p].tag)].type = "dir"
        /\ fs = procs[p].pre

\* the scratch directory of p holds nothing extracted yet
NothingExtracted(f, p) ==
    LET e == f[TmpName(procs[p].tag)] IN
    e.type = "dir" /\ e.content.layout = "scratch" /\ e.content.extracted = "none"

\* extraction has written into the scratch directory of p
SomethingExtracted(f, p) ==
    LET e == f[TmpName(procs[p].tag)] IN
    e.type = "dir" /\ e.content.layout = "scratch" /\ e.content.extracted # "none"

\* C11: within one install, extraction begins only once the hash
\* verification has completed without a failure, the rename onto tag_dir is
\* made only once the extraction has completed without a failure, and the
\* default alias is written only once the rename has put the new
\* installation at tag_dir; the closure of install_from_archive changes
\* tag_dir only when neither its verification nor its extraction failed.
C11_EventsTotallyOrdered ==
    [][\A p \in Procs :
         /\ (procs[p].op = "install" /\ procs'[p].op = "install"
                /\ procs[p].pc \notin {"idle", "returned", "get_down_info"})
              => /\ (NothingExtracted(fs, p) /\ SomethingExtracted(fs', p))
                     => /\ procs[p].pc = "verify"
                        /\ procs[p].wres = "ok" /\ ~procs[p].injected
                 /\ fs'[procs[p].tag] # fs[procs[p].tag]
                     => /\ procs[p].pc = "extract"
                        /\ procs[p].wres = "ok" /\ ~procs[p].injected
                        /\ fs[TmpName(procs[p].tag)].content.extracted = "full"
                 /\ fs'[DEFAULT_TAG] # fs[DEFAULT_TAG]
                     => /\ procs[p].pc = "move"
                        /\ procs[p].wres = "ok" /\ ~procs[p].injected
                        /\ fs[procs[p].tag] = NewInstall(p)
         /\ (procs[p].op = "install_from_archive"
                /\ procs'[p].op = "install_from_archive"
                /\ procs[p].pc = "tmp_exists"
                /\ fs'[procs[p].tag] # fs[procs[p].tag])
              => ~procs'[p].injected]_vars

C11_Witness ==
    \E p \in Procs :
        /\ Ret(p) /\ procs[p].op = "install" /\ procs[p].default
        /\ procs[p].result = "ok"
        /\ fs[procs[p].tag] = NewInstall(p)
        /\ fs[DEFAULT_TAG] = Link(procs[p].tag)

\* the transitions of DownloadExtractStateInner a step may make
Forward ==
    {<<"", "Downloading">>, <<"Downloading", "Extracting">>,
     <<"Extracting", "Stopped">>}

\* C12: the pipeline state only moves forward along Downloading ->
\* Extracting -> Stopped: a step of an install leaves the state where it is
\* (a chunk received) or moves it one stage forward, never back; advance()
\* on Stopped returns an error and changes nothing.
C12_StateMovesForward ==
    [][\A p \in Procs :
         /\ (procs'[p].state # "" /\ procs'[p].state # procs[p].state)
              => <<procs[p].state, procs'[p].state>> \in Forward
         /\ (procs[p].state = "Downloading" /\ procs'[p].state = "Extracting")
              => procs[p].pc = "verify" /\ procs[p].wres = "ok"
         /\ (procs[p].state = "Stopped" /\ procs'[p].state = "Stopped"
                /\ procs[p].pc = "returned" /\ procs'[p] # procs[p])
              => /\ procs'[p].result = "err"
                 /\ procs'[p].msg = "Already stopped"
                 /\ fs' = fs]_vars

C12_Witness ==
    \E p \in Procs :
        /\ procs[p].op = "advance" /\ procs[p].state = "Stopped"
        /\ procs[p].result = "err" /\ procs[p].msg = "Already stopped"

\* C13: once the cancel flag is set after the first chunk of an install was
\* downloaded, the next step of the install returns the cancelled result,
\* with <tool_dir>/.tmp.<tag> absent and no tag_dir created.
C13_CancelAfterFirstChunk ==
    [][\A p \in Procs :
         (/\ cancelled
          /\ procs[p].op = "install" /\ procs[p].chunks >= 1
          /\ procs[p].pc \notin {"idle", "returned"}
          /\ procs'[p] # procs[p])
            => /\ procs'[p].pc = "returned"
               /\ procs'[p].result = "cancelled"
               /\ fs'[TmpName(procs[p].tag)].type = "none"
               /\ procs[p].pre[procs[p].tag].type = "none"
                    => fs'[procs[p].tag].type = "none"]_vars

\* C14: the cancel flag is false initially and stays set once set; a poll
\* made while it is set returns the cancelled result, the operation takes
\* no further step (no command starts or continues), and the only change to
\* the store is the removal of the scratch a dropped TmpDir owned.
C14_CancelIsSticky ==
    /\ cancelled = FALSE
    /\ [][cancelled =>
            /\ cancelled'
            /\ last' = last /\ nops' = nops
            /\ \A p \in Procs :
                 procs'[p] # procs[p]
                   => /\ procs[p].pc \notin {"idle", "returned"}
                      /\ procs'[p].pc = "returned"
                      /\ procs'[p].result = "cancelled"
            /\ \A n \in Names :
                 fs'[n] # fs[n]
                   => /\ fs'[n].type = "none"
                      /\ \E p \in Procs :
                           procs[p].owns /\ n = TmpName(procs[p].tag)]_vars

C14_Witness ==
    /\ cancelled
    /\ \E p \in Procs :
         /\ Ret(p) /\ procs[p].result = "cancelled"
         /\ procs[p].state = "Extracting"
         /\ fs[TmpName(procs[p].tag)].type = "none"

\* the store holds the concrete tag t, the alias a -> t, and nothing else
IsTagAndAlias(f, t, a) ==
    /\ a # t
    /\ f[t].type = "dir" /\ f[a] = Link(t)
    /\ \A n \in Names \ {t, a} : f[n].type = "none"

\* C15: from a store {t, a -> t}, delete(t) with allow_dangling succeeds and
\* removes t; list then reports a with target name t; a clean that follows
\* removes a and nothing else.
C15_DanglingAliasScenario ==
    \A a \in Names :
        (/\ last.op = "delete" /\ last.flag
         /\ IsTagAndAlias(last.pre, last.a1, a))
            => /\ last.ok
               /\ fs = [last.pre EXCEPT ![last.a1] = NoEntry]
               /\ <<a, last.a1>> \in list_tags(fs, TMP_PREFIX)
               /\ \A order \in ReadDirOrders(fs) :
                    clean(fs, order) = [fs EXCEPT ![a] = NoEntry]

\* C16: clean is idempotent: after a clean, a second clean (whatever order
\* read_dir yields the entries in) leaves the store as the first left it.
C16_CleanIdempotent ==
    last.op = "clean"
        => \A order \in ReadDirOrders(fs) : clean(fs, order) = fs

\* the names list reports
Listed(f) == {e[1] : e \in list_tags(f, TMP_PREFIX)}

\* C17 as stated: after alias(t, a) succeeded list contains (a, t); a
\* delete(a) without allow_dangling that follows succeeds, removes only the
\* link a (list no longer contains a) and leaves t as it was.
C17_AliasThenDelete ==
    (last.op = "alias" /\ last.ok)
        => /\ <<last.a2, last.a1>> \in list_tags(fs, TMP_PREFIX)
           /\ \A named \in IF AliasesOf(fs, last.a2) = {} THEN {<<>>}
                            ELSE AliasesOf(fs, last.a2) :
                LET r == delete_tag(fs, last.a2, FALSE, named) IN
                /\ r.ok
                /\ last.a2 \notin Listed(r.fs)
                /\ r.fs = [fs EXCEPT ![last.a2] = NoEntry]
                /\ r.fs[last.a1] = last.pre[last.a1]

\* C17, amended: after alias(t, a) succeeded, a not being a reserved name,
\* list contains (a, t); a delete(a) without allow_dangling that follows
\* removes only the link a and leaves t as it was when no alias in list has
\* the target a, and is rejected with the store unchanged when one has.
C17_AliasThenDeleteUnlessTargeted ==
    (last.op = "alias" /\ last.ok /\ ~starts_with(last.a2, TMP_PREFIX))
        => /\ <<last.a2, last.a1>> \in list_tags(fs, TMP_PREFIX)
           /\ \A named \in IF AliasesOf(fs, last.a2) = {} THEN {<<>>}
                            ELSE AliasesOf(fs, last.a2) :
                LET r == delete_tag(fs, last.a2, FALSE, named) IN
                IF AliasesOf(fs, last.a2) = {}
                THEN /\ r.ok
                     /\ last.a2 \notin Listed(r.fs)
                     /\ r.fs = [fs EXCEPT ![last.a2] = NoEntry]
                     /\ r.fs[last.a1] = last.pre[last.a1]
                ELSE /\ ~r.ok /\ r.msg = "is an alias target"
                     /\ r.named = named /\ fs[named] = Link(last.a2)
                     /\ r.fs = fs

C17_Witness ==
    /\ last.op = "alias" /\ last.ok /\ ~starts_with(last.a2, TMP_PREFIX)
    /\ ~starts_with(last.a1, TMP_PREFIX)
    /\ IsNonEmptyInstall(fs[last.a1]) /\ fs[last.a2] = Link(last.a1)
    /\ AliasesOf(fs, last.a2) = {}

\* C18: copy(src_tag, dest_tag) fails with the store unchanged when src_tag
\* does not exist, when dest_tag exists or when dest_tag is default;
\* otherwise it succeeds, list then contains both src_tag and dest_tag, and
\* src_tag is unchanged.
C18_CopyContract ==
    last.op = "copy"
        => IF \/ ~PathExists(last.pre, last.a1)
              \/ last.pre[last.a2].type # "none"
              \/ last.a2 = DEFAULT_TAG
           THEN ~last.ok /\ fs = last.pre
           ELSE /\ last.ok
                /\ {last.a1, last.a2} \subseteq Listed(fs)
                /\ fs[last.a1] = last.pre[last.a1]

\* prefix is a prefix of s, character by character
IsPrefix(prefix, s) ==
    Len(prefix) <= Len(s) /\ \A i \in 1..Len(prefix) : s[i] = prefix[i]

\* s without its first k characters
Drop(s, k) == [i \in 1..(Len(s) - k) |-> s[i + k]]

\* the entries of the mirror list whose from the requested URL begins with
Matching == {i \in 1..Len(http.mirror) : IsPrefix(http.mirror[i].from, http.url)}

\* to + url[len(from):] for entry i
Rewritten(i) ==
    http.mirror[i].to \o Drop(http.url, Len(http.mirror[i].from))

\* C19 as stated: for each configured rule (from, to) whose from the url
\* begins with, the outgoing URL is to followed by the url without the from
\* prefix; a url that begins with no rule's from goes out unchanged.
C19_EveryMatchingRuleApplies ==
    http.sent
        => /\ \A i \in Matching : http.out = Rewritten(i)
           /\ Matching = {} => http.out = http.url

\* C19, amended: the outgoing URL is to followed by the url without the
\* from prefix for the first rule, in list order, whose from the url begins
\* with; a url that begins with no rule's from goes out unchanged.
C19_FirstMatchingRuleApplies ==
    http.sent
        => /\ \A i \in Matching :
                (\A j \in Matching : i <= j) => http.out = Rewritten(i)
           /\ Matching = {} => http.out = http.url

C19_Witness ==
    /\ http.sent
    /\ \E i, j \in Matching :
         /\ i < j /\ Rewritten(i) # Rewritten(j)
         /\ Len(http.mirror[i].from) > 0
         /\ http.out = Rewritten(i) /\ http.out # http.url

\* C20: the rewrite is first-match and single-pass: the entry applied is
\* the first of the list whose from is a prefix, it is applied once, and
\* the result is what is requested even when it begins with the from of
\* some entry.
C20_FirstMatchSinglePass ==
    http.sent
        => IF Matching = {}
           THEN http.entry = 0 /\ http.out = http.url
           ELSE /\ http.entry \in Matching
                /\ \A j \in 1..(http.entry - 1) : j \notin Matching
                /\ IsPrefix(http.mirror[http.entry].to, http.out)
                /\ Drop(http.out, Len(http.mirror[http.entry].to))
                     = Drop(http.url, Len(http.mirror[http.entry].from))

C20_Witness ==
    /\ http.sent /\ http.entry >= 1
    /\ \E j \in Matching : j > http.entry
    /\ \E k \in 1..Len(http.mirror) :
         /\ IsPrefix(http.mirror[k].from, http.out)
         /\ get(http.mirror, http.out).url # http.out

\* the last k pieces of s
Suffix(s, k) == SubSeq(s, Len(s) - k + 1, Len(s))

HasSuffix(s, x) == Len(s) >= Len(x) /\ Suffix(s, Len(x)) = x

\* C21: archive type detection succeeds exactly for the paths ending in
\* ".zip", ".tar.gz" or ".tar.xz", returning Zip, TarGz and TarXz, and fails
\* with "unknown archive type" for every other path.
C21_ArchiveDetection ==
    (call.fn = "from_path" /\ call.done)
        => LET path == call.path
               out == call.out IN
           /\ HasSuffix(path, <<".", "zip">>) <=> (out.ok /\ out.type = "Zip")
           /\ HasSuffix(path, <<".", "tar", ".", "gz">>) <=> (out.ok /\ out.type = "TarGz")
           /\ HasSuffix(path, <<".", "tar", ".", "xz">>) <=> (out.ok /\ out.type = "TarXz")
           /\ (~out.ok) => out.msg = "unknown archive type"
           /\ out.ok => out.type \in {"Zip", "TarGz", "TarXz"}

\* a path with a lookalike ending (tar.gz without its dot) has been refused
C21_Witness ==
    /\ call.fn = "from_path" /\ call.done
    /\ call.path = <<"a", "tar", ".", "gz">>
    /\ ~call.out.ok

\* the components of a parsed version in the order the spec compares them
Key(tool, v) ==
    CASE tool = "go" ->
           <<v.major, v.minor, v.patch,
             (CASE v.pre_release.kind = "Beta" -> 0
                [] v.pre_release.kind = "Rc" -> 1
                [] v.pre_release.kind = "None" -> 2),
             v.pre_release.n>>
      [] tool = "liberica" -> <<v.major, v.minor, v.security, v.patch, v.build>>
      [] tool = "node" -> <<v.major, v.minor, v.patch>>

\* x is before y in the lexicographic order of two tuples of equal length
LexLess(x, y) ==
    \E i \in 1..Len(x) : x[i] < y[i] /\ \A j \in 1..(i - 1) : x[j] = y[j]

Le(o) == o \in {"Less", "Equal"}

\* C22: the comparator of each tool's parsed version is a total order
\* (reflexive, antisymmetric, transitive, total), lexicographic over the
\* components, and for Go, at equal (major, minor, patch),
\* Beta(N) < Rc(N) < final for every N >= 1.
C22_ComparatorIsTotalOrder ==
    (call.fn = "cmp" /\ call.done)
        => LET tool == call.tool
               a == call.a
               b == call.b IN
           /\ (a = b) => call.out = "Equal"
           /\ (Le(call.out) /\ Le(call.rev)) => a = b
           /\ Le(call.out) \/ Le(call.rev)
           /\ \A c \in ParsedVersions(tool) :
                (Le(call.out) /\ Le(cmp(tool, b, c))) => Le(cmp(tool, a, c))
           /\ (call.out = "Less") <=> LexLess(Key(tool, a), Key(tool, b))
           /\ (call.out = "Greater") <=> LexLess(Key(tool, b), Key(tool, a))
           /\ (/\ tool = "go"
               /\ a.major = b.major /\ a.minor = b.minor /\ a.patch = b.patch)
                => /\ (/\ a.pre_release.kind = "Beta" /\ b.pre_release.kind = "Rc"
                       /\ a.pre_release.n = b.pre_release.n) => call.out = "Less"
                   /\ (/\ a.pre_release.kind = "Rc"
                       /\ b.pre_release.kind = "None") => call.out = "Less"

\* a Go beta with the larger number has been compared with an rc of the
\* same (major, minor, patch) and found less
C22_Witness ==
    /\ call.fn = "cmp" /\ call.done /\ call.tool = "go"
    /\ call.a.major = call.b.major /\ call.a.minor = call.b.minor
    /\ call.a.patch = call.b.patch
    /\ call.a.pre_release = [kind |-> "Beta", n |-> 2]
    /\ call.b.pre_release = [kind |-> "Rc", n |-> 1]
    /\ call.out = "Less" /\ call.rev = "Greater"

\* what a release of a catalog is, as the adapter reports it: the version
\* string, the parsed version and the LTS flag
Reported(tool, r) ==
    CASE tool = "go" -> go_release(r)
      [] tool = "node" -> node_release(r)
      [] tool = "liberica" ->
           IF "components" \in DOMAIN r THEN ReleaseItem_try_from(r)
           ELSE ReleaseItem_from(r)

\* the conjunction of the present predicates of a filter on a release
Admits(version_filter, tool, r) ==
    /\ (~version_filter.lts_only) \/ Reported(tool, r).lts
    /\ \/ version_filter.major_version = <<>>
       \/ NumeralValue[version_filter.major_version[1]] = Reported(tool, r).version.major
    /\ \/ version_filter.exact_version = <<>>
       \/ version_filter.exact_version[1] = Reported(tool, r).version_raw

Offers(catalog, label) ==
    \E i \in 1..Len(catalog) :
        catalog[i].version = label /\ any_file(catalog[i].files, LAMBDA file : file = "linux-x64")

\* C24: the exact_version predicate matches a release iff the requested
\* string equals the raw upstream label: for Node, get_down_info with
\* exact_version "v20.11.1" against a catalog that holds the upstream entry
\* "v20.11.1" with the platform's file key selects that release, and does not
\* fail with "No download URL found".
C24_NodeExactVersionIsRawLabel ==
    (/\ call.fn = "get_down_info" /\ call.done /\ call.tool = "node"
     /\ call.version_filter = [lts_only |-> FALSE, major_version |-> <<>>,
                               exact_version |-> << <<"v", "20", ".", "11", ".", "1">> >>]
     /\ Offers(call.catalog, <<"v", "20", ".", "11", ".", "1">>))
        => /\ call.out.ok
           /\ parse_node_version(<<"v", "20", ".", "11", ".", "1">>).raw = call.out.version

\* a release of the catalog can be installed on the platform and carries a
\* version: its label parses (Go, Node) or it has a liberica component (NIK)
Installable(tool, r) ==
    CASE tool = "go" ->
           /\ \E i \in 1..Len(r.files) : r.files[i] = GoArchive
           /\ parse_go_version(r.version).ok
      [] tool = "node" ->
           /\ \E i \in 1..Len(r.files) : r.files[i] = "linux-x64"
           /\ parse_node_version(r.version).ok
      [] tool = "liberica" ->
           ("components" \in DOMAIN r) => is_some(java_component(r))

\* the releases of the catalog of the call that are installable and match
\* the filter of the call
MatchingReleases ==
    {i \in 1..Len(call.catalog) :
        /\ Installable(call.tool, call.catalog[i])
        /\ Admits(call.version_filter, call.tool, call.catalog[i])}

\* the parsed version of a version string an adapter reports
ParsedOf(tool, version) ==
    CASE tool = "go" -> parse_go_version(<<"go">> \o version).version
      [] tool = "node" -> parse_node_version(version).version
      [] tool = "liberica" -> JdkVersion_parse(version)

\* C25: fetch_versions returns exactly the catalog releases that are
\* available for the platform and match the filter, no version string twice,
\* in ascending order of the tool's parsed-version order; the Go catalog
\* go1.24.2, go1.24rc3, go1.23.8, go1.22.12, go1.24.1 with major 1 yields
\* 1.22.12, 1.23.8, 1.24rc3, 1.24.1, 1.24.2.
C25_FetchVersionsSortedDistinct ==
    (call.fn = "fetch_versions" /\ call.done)
        => LET versions == call.out.versions IN
           /\ call.out.ok
           /\ {versions[i].version : i \in 1..Len(versions)}
                = {Reported(call.tool, call.catalog[i]).version_raw : i \in MatchingReleases}
           /\ \A i, j \in 1..Len(versions) :
                (i # j) => versions[i].version # versions[j].version
           /\ \A i, j \in 1..Len(versions) :
                (i < j) => Le(cmp(call.tool, ParsedOf(call.tool, versions[i].version),
                                  ParsedOf(call.tool, versions[j].version)))
           /\ (/\ call.tool = "go" /\ call.catalog = GoExampleCatalog
               /\ call.version_filter = [lts_only |-> FALSE, major_version |-> <<"1">>,
                                         exact_version |-> <<>>])
                => [i \in 1..Len(versions) |-> versions[i].version]
                     = << <<"1", ".", "22", ".", "12">>, <<"1", ".", "23", ".", "8">>,
                          <<"1", ".", "24", "rc", "3">>, <<"1", ".", "24", ".", "1">>,
                          <<"1", ".", "24", ".", "2">> >>

\* the versions of the Go major-filter scenario have been fetched
C25_Witness ==
    /\ call.fn = "fetch_versions" /\ call.done
    /\ call.tool = "go" /\ call.catalog = GoExampleCatalog
    /\ call.version_filter = [lts_only |-> FALSE, major_version |-> <<"1">>,
                              exact_version |-> <<>>]
    /\ Len(call.out.versions) = 5

\* C26: get_down_info returns a release that matches the filter and whose
\* parsed version is a maximum, under the tool's version order, of all the
\* matching releases for the platform; when no release matches it fails with
\* "No download URL found".
C26_DownInfoIsMaximum ==
    (call.fn = "get_down_info" /\ call.done)
        => IF MatchingReleases = {}
           THEN ~call.out.ok /\ call.out.msg = "No download URL found."
           ELSE /\ call.out.ok
                /\ \E i \in MatchingReleases :
                     Reported(call.tool, call.catalog[i]).version_raw = call.out.version
                /\ \A i \in MatchingReleases :
                     Le(cmp(call.tool, Reported(call.tool, call.catalog[i]).version,
                            ParsedOf(call.tool, call.out.version)))

\* the greater of two matching releases, listed first in the catalog, has
\* been selected
C26_Witness ==
    /\ call.fn = "get_down_info" /\ call.done /\ call.out.ok
    /\ Len(call.catalog) = 2 /\ MatchingReleases = {1, 2}
    /\ cmp(call.tool, Reported(call.tool, call.catalog[1]).version,
           Reported(call.tool, call.catalog[2]).version) = "Greater"
    /\ call.out.version = Reported(call.tool, call.catalog[1]).version_raw

\* C27: the process outcome is exit code zero when the command succeeds (or
\* is cancelled) and non-zero whenever the command ends with an error.
C27_ExitCodeReflectsOutcome ==
    /\ \A p \in Procs :
         (Ret(p) /\ IsInstall(p))
            => ((main(procs[p].result).status = 0)
                   <=> procs[p].result \in {"ok", "cancelled"})
    /\ (last.op # "")
         => ((main(IF last.ok THEN "ok" ELSE "err").status = 0) <=> last.ok)

\* C28: if the digest of the downloaded archive differs from a declared sha1
\* or sha256, on_downloaded fails: the step that receives the mismatch does
\* not enter Extracting and removes the scratch directory, and from then on
\* the install extracts nothing, renames nothing, leaves tag_dir as it was
\* before the install, and ends with the hash error (or cancelled).
C28_HashMismatchStopsInstall ==
    [][\A p \in Procs :
         LET tag == procs[p].tag
             tmp == TmpName(procs[p].tag) IN
         /\ (/\ procs[p].op = "install" /\ procs[p].pc = "verify"
             /\ procs[p].wres = "mismatch" /\ procs'[p] # procs[p])
              => /\ procs'[p].state = "Downloading"
                 /\ \/ procs'[p].pc = "drop" /\ procs'[p].pending = "err"
                       /\ procs'[p].msg = "hash"
                    \/ procs'[p].pc = "returned" /\ procs'[p].result = "cancelled"
                 /\ fs'[tmp].type = "none"
                 /\ \A n \in Names : (n # tmp) => fs'[n] = fs[n]
                 /\ fs'[tag] = procs[p].pre[tag]
         /\ (/\ procs[p].op = "install" /\ procs[p].msg = "hash"
             /\ procs'[p].op = "install" /\ procs'[p].msg = "hash")
              => /\ procs'[p].state = "Downloading"
                 /\ procs'[p].pc = "returned" => procs'[p].result = "err"
                 /\ fs' = fs
                 /\ fs'[tmp].type = "none"
                 /\ fs'[tag] = procs[p].pre[tag]]_vars

\* an install over an existing tag has ended with the hash error, the tag
\* being what it was and the scratch directory gone
C28_Witness ==
    \E p \in Procs :
        /\ Ret(p) /\ procs[p].op = "install"
        /\ procs[p].result = "err" /\ procs[p].msg = "hash"
        /\ procs[p].state = "Downloading"
        /\ procs[p].pre[procs[p].tag].type = "dir"
        /\ fs[procs[p].tag] = procs[p].pre[procs[p].tag]
        /\ fs[TmpName(procs[p].tag)].type = "none"

\* a declared digest is the digest of the file under the algorithm
DigestMatches(alg, declared, file) ==
    /\ file \in Contents
    /\ "bytes" \in DOMAIN declared
    /\ declared.bytes = [alg |-> alg, of |-> file]

\* a declared digest is a well-formed digest other than the file's
DigestDiffers(alg, declared, file) ==
    /\ file \in Contents
    /\ "bytes" \in DOMAIN declared
    /\ declared.bytes # [alg |-> alg, of |-> file]

\* C29: verify_hash succeeds iff every declared digest matches the file: with
\* sha1 and sha256 both absent it succeeds for any file; with both present it
\* fails if either one mismatches, reporting the sha1 error when sha1
\* mismatches and otherwise the sha256 error.
C29_VerifyHashChecksEveryDigest ==
    (call.fn = "verify_hash" /\ call.done)
        => LET hash == call.hash
               file == call.file IN
           /\ (call.out = "ok")
                <=> /\ hash.sha1 # <<>> => DigestMatches("sha1", hash.sha1[1], file)
                    /\ hash.sha256 # <<>> => DigestMatches("sha256", hash.sha256[1], file)
           /\ (hash.sha1 = <<>> /\ hash.sha256 = <<>>) => call.out = "ok"
           /\ (hash.sha1 # <<>> /\ hash.sha256 # <<>>)
                => /\ DigestDiffers("sha1", hash.sha1[1], file)
                        => call.out = "sha1 verification failed"
                   /\ (/\ DigestMatches("sha1", hash.sha1[1], file)
                       /\ DigestDiffers("sha256", hash.sha256[1], file))
                        => call.out = "sha256 verification failed"

\* both digests declared, the sha1 one right and the sha256 one wrong: the
\* sha256 error has been returned
C29_Witness ==
    /\ call.fn = "verify_hash" /\ call.done
    /\ call.file = "A"
    /\ call.hash.sha1 = <<[bytes |-> [alg |-> "sha1", of |-> "A"], upper |-> TRUE]>>
    /\ call.hash.sha256 = <<[bytes |-> [alg |-> "sha256", of |-> "B"], upper |-> FALSE]>>
    /\ call.out = "sha256 verification failed"

\* C30: on_extracted moves into tag_dir the single child of the extraction
\* directory when extraction produced exactly one child and that child is a
\* directory; in every other case (no child, several children, or one child
\* that is a file) it moves the extraction directory itself.
C30_MoveSourceIsSingleDirOrExtractionDir ==
    [][\A p \in Procs :
         (/\ procs[p].op = "install" /\ procs[p].pc = "extract"
          /\ procs'[p].pc = "move" /\ procs'[p].wres = "ok")
            => LET arch == procs[p].arch
                   tmp == TmpName(procs[p].tag) IN
               IF arch.top = "single_dir"
               THEN /\ fs'[procs[p].tag] = Dir([layout |-> "inner", id |-> arch.id])
                    /\ fs'[tmp].content.extracted = "hollow"
               ELSE /\ arch.top \in {"empty", "multi", "single_file"}
                    /\ fs'[procs[p].tag] = Dir([layout |-> arch.top, id |-> arch.id])
                    /\ fs'[tmp].content.extracted = "none"]_vars

\* an archive whose only top-level entry is a file has been installed: the
\* tag holds the extraction directory itself
C30_Witness ==
    \E p \in Procs :
        /\ Ret(p) /\ procs[p].op = "install" /\ procs[p].result = "ok"
        /\ procs[p].arch.top = "single_file"
        /\ fs[procs[p].tag] = Dir([layout |-> "single_file", id |-> procs[p].arch.id])

\* the awaits inside advance(), where the pipeline owns the scratch
InAdvance == {"chunk", "verify", "extract", "move", "alias"}

\* C31: on every exit path of advance() while the flag is not set, the
\* scratch directory is either handed back to the returned state or removed
\* on the blocking worker with should_not_block cleared; "Blocking remove" is
\* logged only for a scratch dropped while marked should_not_block with the
\* flag not set; removing a scratch that is already missing does not change
\* what advance() returns.
C31_ScratchHandedBackOrRemovedOnWorker ==
    [][\A p \in Procs :
         (/\ ~cancelled /\ procs[p].pc \in InAdvance /\ procs'[p] # procs[p])
            => LET tmp == TmpName(procs[p].tag)
                   completed == /\ procs[p].wres = "ok"
                                /\ \/ procs[p].pc = "alias"
                                   \/ procs[p].pc = "move" /\ ~procs[p].default
               IN
               /\ "Blocking remove" \notin procs'[p].log
               /\ \/ /\ procs'[p].pc \in InAdvance
                     /\ procs'[p].owns /\ procs'[p].should_not_block
                     /\ procs'[p].log = procs[p].log
                     /\ fs[tmp].type = "dir" => fs'[tmp].type = "dir"
                  \/ /\ procs'[p].pc = "drop"
                     /\ ~procs'[p].owns /\ ~procs'[p].should_not_block
                     /\ fs'[tmp] = NoEntry
                     /\ procs'[p].pending = (IF completed THEN "ok" ELSE "err")
                     /\ ("Failed to remove directory" \in procs'[p].log
                            /\ "Failed to remove directory" \notin procs[p].log)
                          => fs[tmp] = NoEntry]_vars

\* an advance() has ended in an error, and one has completed, with the
\* scratch removed on the worker; one of them found the scratch missing
C31_Witness ==
    /\ \E p \in Procs : /\ procs[p].pc = "drop" /\ procs[p].pending = "ok"
                        /\ "Failed to remove directory" \in procs[p].log
                        /\ fs[TmpName(procs[p].tag)] = NoEntry
    /\ ~cancelled

RECURSIVE Sum(_)
Sum(lens) == IF lens = <<>> THEN 0 ELSE Head(lens) + Sum(Tail(lens))

\* C32: while in Downloading, the downloaded bytes status() reports equal
\* the sum of the lengths of the chunks written by completed advance()
\* calls (0 before the first advance, never decreasing); progress_ratio is
\* present iff the response declared a total size, and absent in Extracting.
C32_StatusReflectsCompletedAdvances ==
    /\ [](LET st == status(call.state) IN
          /\ call.state.name = "Downloading" =>
               /\ (st.progress_ratio # <<>>) <=> (call.state.total_size # <<>>)
               /\ st.progress_ratio # <<>> =>
                    /\ st.progress_ratio[1][1] = Sum(call.completed)
                    /\ st.progress_ratio[1][2] = call.state.total_size[1]
               /\ call.completed = <<>> => call.state.downloaded_size = 0
               /\ call.state.downloaded_size = Sum(call.completed)
          /\ call.state.name = "Extracting" => st.progress_ratio = <<>>
          /\ (call.fn = "advance" /\ call.result # "err") => call.out = <<st>>)
    /\ [][(call.state.name = "Downloading" /\ call'.state.name = "Downloading")
            => call'.state.downloaded_size >= call.state.downloaded_size]_vars

\* status() has reported two bytes of a declared total after two advances
C32_Witness ==
    /\ call.fn = "advance" /\ ~call.done
    /\ Len(call.completed) = 2
    /\ call.out # <<>> /\ call.out[1].name = "Downloading"
    /\ call.out[1].progress_ratio # <<>>
    /\ call.out[1].progress_ratio[1][1] = 2

\* a decimal non-negative integer, as written in a label
IsNumber(part) ==
    \/ Len(part) = 1 /\ part[1] \in DOMAIN NumeralValue
    \/ Len(part) = 2 /\ part[1] = "+" /\ part[2] \in DOMAIN NumeralValue

ValueOf(part) == NumeralValue[part[Len(part)]]

\* the positions of 'beta' and 'rc' in a label
Keywords(s) == {i \in 1..Len(s) : s[i] \in {"beta", "rc"}}

\* the label up to its first 'beta' or 'rc', without the 'go' prefix
HeadOf(s) ==
    LET rest == Tail(s) IN
    IF Keywords(rest) = {} THEN rest
    ELSE SubSeq(rest, 1, (CHOOSE i \in Keywords(rest) :
                             \A j \in Keywords(rest) : i <= j) - 1)

\* the dotted components of the head
ComponentsOf(s) == split(HeadOf(s), ".")

\* the label is one of those the parser has to reject
Malformed(s) ==
    \/ ~(Len(s) >= 1 /\ s[1] = "go")
    \/ s = <<"go">>
    \/ \E i \in Keywords(Tail(s)) :
          ~IsNumber(SubSeq(Tail(s), i + 1, Len(Tail(s))))
    \/ Len(ComponentsOf(s)) > 3
    \/ \E i \in 1..Len(ComponentsOf(s)) : ComponentsOf(s)[i] = <<>>
    \/ \E i \in 1..Len(ComponentsOf(s)) : ~IsNumber(ComponentsOf(s)[i])

\* C33: parse_go_version rejects every label that lacks the 'go' prefix,
\* has nothing after it, has an empty major, minor or patch component, more
\* than three dotted components, a component that is no number, or a 'beta'
\* or 'rc' not followed by a non-negative integer; for an accepted label it
\* returns the label without 'go', and minor and patch are 0 when missing.
C33_ParseGoVersionRejectsMalformed ==
    (mode = "parse" /\ call.done) =>
        LET s == call.s
            out == call.out
            c == ComponentsOf(s)
        IN  /\ Malformed(s) => ~out.ok
            /\ out.ok =>
                 /\ out.raw = Tail(s)
                 /\ <<"go">> \o out.raw = s
                 /\ out.version.major = ValueOf(c[1])
                 /\ out.version.minor = (IF Len(c) >= 2 THEN ValueOf(c[2]) ELSE 0)
                 /\ out.version.patch = (IF Len(c) >= 3 THEN ValueOf(c[3]) ELSE 0)

\* a label of four dotted numbers has been rejected
C33_Witness ==
    /\ mode = "parse" /\ call.done
    /\ call.s = <<"go", "1", ".", "1", ".", "1", ".", "1">>
    /\ Malformed(call.s) /\ ~call.out.ok

\* C34: during an update-install of an existing tag T, in every state from
\* its start on (the state a failed step or a cancellation leaves included)
\* <tool_dir>/T holds the complete previous installation or the complete
\* new one; it is never absent or partial.
C34_UpdateNeverLosesTag ==
    \A p \in Procs :
        (/\ IsInstall(p) /\ procs[p].update
         /\ procs[p].tag \in DerivedTags
         /\ ~starts_with(procs[p].tag, TMP_PREFIX)
         /\ IsNonEmptyInstall(procs[p].pre[procs[p].tag]))
            => \/ fs[procs[p].tag] = procs[p].pre[procs[p].tag]
               \/ fs[procs[p].tag] = NewInstall(p)

\* C35: starting from an empty tag store, after any sequence of install,
\* install_from_archive, alias, copy, clean and delete without
\* allow_dangling, whether each succeeds or fails, every alias link resolves
\* to an existing entry.
C35_NoDanglingAlias ==
    \A n \in Names : fs[n].type = "link" => PathExists(fs, n)

Fetched == fetch_versions(call.tool, call.flavor, call.catalog, call.version_filter)

LastFetched == Fetched.versions[Len(Fetched.versions)].version

\* C37: for every catalog, platform and filter, get_down_info succeeds iff
\* fetch_versions returns a non-empty list, and the version string it
\* returns equals the last element of that list, also when several catalog
\* entries with different labels parse to equal versions.
C37_DownInfoIsLastFetchedVersion ==
    (call.fn = "get_down_info" /\ call.done /\ Fetched.ok)
        => /\ call.out.ok <=> Fetched.versions # <<>>
           /\ call.out.ok => call.out.version = LastFetched

\* C37 as the code has it: get_down_info succeeds iff fetch_versions returns
\* a non-empty list, and the version it returns is equal, under the tool's
\* version order, to the last element of that list; the two version strings
\* are the same unless two matching releases with different labels parse to
\* equal versions.
C37_DownInfoEqualsLastFetchedInOrder ==
    (call.fn = "get_down_info" /\ call.done /\ Fetched.ok)
        => /\ call.out.ok <=> Fetched.versions # <<>>
           /\ call.out.ok =>
                /\ cmp(call.tool, ParsedOf(call.tool, call.out.version),
                       ParsedOf(call.tool, LastFetched)) = "Equal"
                /\ \/ call.out.version = LastFetched
                   \/ \E i \in MatchingReleases, j \in MatchingReleases :
                        /\ Reported(call.tool, call.catalog[i]).version_raw
                             # Reported(call.tool, call.catalog[j]).version_raw
                        /\ cmp(call.tool,
                               Reported(call.tool, call.catalog[i]).version,
                               Reported(call.tool, call.catalog[j]).version) = "Equal"

\* two Liberica releases whose labels differ and parse to equal versions:
\* get_down_info returns the one that comes first in the catalog while
\* fetch_versions lists the one that comes second last
C37_Witness ==
    /\ call.fn = "get_down_info" /\ call.done /\ call.out.ok
    /\ call.tool = "liberica" /\ Len(call.catalog) = 2
    /\ MatchingReleases = {1, 2}
    /\ call.out.version = <<"21", "+", "35">>
    /\ LastFetched = <<"21", ".", "0", ".", "0", "+", "35">>

\* C38: every archive type that detection accepts (Zip, TarGz, TarXz) is
\* handled by extract_archive: an install whose URL or path ends in
\* ".tar.xz" reaches extraction and is unpacked rather than left unhandled.
C38_EveryDetectedTypeIsUnpacked ==
    (call.fn = "extract_archive" /\ call.done /\ call.io = "ok")
        => call.result.unpacked

\* start() returns an error to the driver p in this step
StartFails(p) ==
    /\ ~cancelled
    /\ procs[p].pc \in {"send", "mkscratch"}
    /\ procs'[p].pc = "returned" /\ procs'[p].result = "err"

\* C39: if starting the pipeline fails because the HTTP request fails, the
\* response status is not 2xx, or the URL has no known archive suffix, then
\* no scratch directory .tmp.T was created; if it fails after the scratch
\* was created (the archive file cannot be created), the scratch is removed
\* before start returns.
C39_FailedStartLeavesNoScratch ==
    [][\A p \in Procs :
         (p \in Active /\ StartFails(p)) =>
            LET tmp == TmpName(procs[p].tag) IN
            /\ procs'[p].msg \in SendOutcomes \ {"ok"}
                 => /\ procs[p].pc = "send"
                    /\ fs'[tmp] = procs[p].pre[tmp]
                    /\ fs'[tmp].type # "dir"
            /\ procs'[p].msg = "File::create"
                 => /\ procs[p].pc = "mkscratch"
                    /\ fs'[tmp].type = "none"
            /\ procs'[p].msg = "create_dir_all"
                 => fs'[tmp] = procs[p].pre[tmp]]_vars

\* start has returned the error of File::create and the scratch is gone
C39_Witness ==
    \E p \in Procs :
        /\ procs[p].pc = "returned" /\ procs[p].result = "err"
        /\ procs[p].msg = "File::create"
        /\ ~starts_with(procs[p].tag, TMP_PREFIX)
        /\ fs[TmpName(procs[p].tag)].type = "none"

\* C40: with a finite body, worker steps that complete and the cancel flag
\* never set, a driver that repeats status() then advance() eventually
\* observes Stopped or an error: the pipeline cannot stay in Downloading or
\* Extracting forever.
C40_DriverEventuallyStops ==
    /\ <>(call.done /\ call.result \in {"ok", "err"})
    /\ (call.state.name \in {"Downloading", "Extracting"} /\ ~call.done)
          ~> (call.done /\ (call.result = "ok" => call.state.name = "Stopped"))

\* the driver has taken a body of MaxBody chunks through Downloading and
\* Extracting and its status() has seen Stopped
C40_Witness ==
    /\ mode = "progress"
    /\ call.done /\ call.result = "ok"
    /\ call.state.name = "Stopped" /\ call.out = <<status(Stopped)>>
    /\ Len(call.completed) = MaxBody /\ call.body = <<>>

====
